---- MODULE Spec2Model ----
(***************************************************************************)
(* Model of the AI listing-content service of listtra-backend              *)
(* (AIService in src/src/models/User.js, lines 399-858), of its caller     *)
(* boundary, and of the listing, profile and webhook endpoints with the    *)
(* authenticate middleware in front of them.  JavaScript values are tagged records [t, v]; JavaScript      *)
(* strings are TLA+ strings, read character by character with SubSeq.      *)
(***************************************************************************)
EXTENDS Integers, Sequences, FiniteSets, TLC

(***************************************************************************)
(* State                                                                   *)
(***************************************************************************)
VARIABLES
    preferredProvider,  \* this.preferredProvider (process.env.AI_PROVIDER || 'gemini')
    geminiModel,        \* this.geminiModel is not null
    openai,             \* the module-level openai client is not null
    clock,              \* the time new Date() reads
    pc,                 \* per call: where analyzeProductImages stands
    request,            \* per call: the arguments (images, modelNumber, additionalInfo)
    fetches,            \* per call: the state of fetch(imageUrl), by image position
    sent,               \* per call: the requests issued to the backend, in order
    reply,              \* per call: what the backend answered
    caught,             \* per call: the error bound in the catch block
    outcome,            \* per call: what analyzeProductImages returned or threw
    rawText,            \* direct parser call: the text argument
    providerId,         \* direct parser call: the provider argument
    parsePc,            \* direct parser call: "ready" or "done"
    parseOut,           \* direct parser call: what parseAIResponse returned or threw
    history,            \* direct calls of the other methods: (method, arguments, result), in order
    http,               \* per call: the response of POST /analyze-product
    users,              \* the User collection, in insertion order (_id is the position)
    listings,           \* the Listing collection, in insertion order (_id is the position)
    req,                \* per slot: the HTTP request being served and its response
    webhookSecret       \* process.env.CLERK_WEBHOOK_SECRET is set


(***************************************************************************)
(* JavaScript values                                                       *)
(***************************************************************************)
Undef == [t |-> "undef", v |-> 0]
Null == [t |-> "null", v |-> 0]
NaN == [t |-> "NaN", v |-> 0]
Str(s) == [t |-> "str", v |-> s]
Bool(b) == [t |-> "bool", v |-> b]
Arr(a) == [t |-> "arr", v |-> a]
Obj(o) == [t |-> "obj", v |-> o]
Inf(sign) == [t |-> "inf", v |-> sign]

RECURSIVE Pow10(_)
Pow10(k) == IF k <= 0 THEN 1 ELSE 10 * Pow10(k - 1)

\* A finite number is the exact decimal m / 10^e, kept in lowest form.
RECURSIVE Dec(_, _)
Dec(m, e) ==
    IF m = 0 THEN [t |-> "num", v |-> [m |-> 0, e |-> 0]]
    ELSE IF e < 0 THEN Dec(m * Pow10(0 - e), 0)
    ELSE IF e > 0 /\ m % 10 = 0 THEN Dec(m \div 10, e - 1)
    ELSE [t |-> "num", v |-> [m |-> m, e |-> e]]

Num(n) == Dec(n, 0)

EmptyObject == Obj(<<>>)

\* x.k and x?.k on a value decoded from JSON: a property read of a missing
\* key, or of a primitive, is undefined.
Get(x, k) ==
    IF x.t = "obj" /\ k \in DOMAIN x.v THEN x.v[k] ELSE Undef

\* x?.k short-circuits on null and undefined only.
Nullish(x) == x.t \in {"undef", "null"}

Truthy(x) ==
    CASE x.t = "undef" -> FALSE
      [] x.t = "null" -> FALSE
      [] x.t = "NaN" -> FALSE
      [] x.t = "bool" -> x.v
      [] x.t = "str" -> x.v # ""
      [] x.t = "num" -> x.v.m # 0
      [] OTHER -> TRUE

\* a || b
Or(a, b) == IF Truthy(a) THEN a ELSE b

IsArray(x) == x.t = "arr"

(***************************************************************************)
(* Strings                                                                 *)
(***************************************************************************)
\* Body(v) with v evaluated once (a local constant of the source).
Let(v, Body(_)) == CHOOSE out \in {Body(r) : r \in {v}} : TRUE

Char(s, i) == SubSeq(s, i, i)

Upper == "ABCDEFGHIJKLMNOPQRSTUVWXYZ"
Lower == "abcdefghijklmnopqrstuvwxyz"
Digits == "0123456789"

Least(S) == CHOOSE i \in S : \A j \in S : i <= j
Greatest(S) == CHOOSE i \in S : \A j \in S : j <= i

\* Position of the first one-character string c in the string s, 0 when absent.
IndexOfChar(s, c) ==
    Let({i \in 1..Len(s) : Char(s, i) = c},
        LAMBDA S : IF S = {} THEN 0 ELSE Least(S))

LastIndexOfChar(s, c) ==
    Let({i \in 1..Len(s) : Char(s, i) = c},
        LAMBDA S : IF S = {} THEN 0 ELSE Greatest(S))

IsDigit(c) == \E i \in 1..10 : Char(Digits, i) = c
DigitVal(c) == IndexOfChar(Digits, c) - 1

\* String.prototype.substring(0, n)
substring0(s, n) == IF Len(s) <= n THEN s ELSE SubSeq(s, 1, n)

LowerChar(c) ==
    Let(IndexOfChar(Upper, c), LAMBDA u : IF u > 0 THEN Char(Lower, u) ELSE c)

RECURSIVE LowerFrom(_, _)
LowerFrom(s, i) ==
    IF i > Len(s) THEN "" ELSE LowerChar(Char(s, i)) \o LowerFrom(s, i + 1)

\* String.prototype.toLowerCase (ASCII letters)
toLowerCase(s) == LowerFrom(s, 1)

RECURSIVE StripFrom(_, _)
StripFrom(s, i) ==
    IF i > Len(s) THEN ""
    ELSE (IF (\E k \in 1..26 : Char(Lower, k) = Char(s, i)) \/ Char(s, i) = "-"
          THEN Char(s, i) ELSE "")
            \o StripFrom(s, i + 1)

\* s.replace(/[^a-z-]/g, '')
stripNonCondition(s) == StripFrom(s, 1)

\* String.prototype.includes
includes(s, key) ==
    \E i \in 1..(Len(s) - Len(key) + 1) : SubSeq(s, i, i + Len(key) - 1) = key

(***************************************************************************)
(* JSON.parse, character by character (ECMA-404 grammar; the escapes \b    *)
(* and \uXXXX are outside the alphabet of the modelled texts)              *)
(***************************************************************************)
Fail == [ok |-> FALSE, v |-> Undef, i |-> 0]
Ok(v, i) == [ok |-> TRUE, v |-> v, i |-> i]

IsWs(c) == c \in {" ", "\n", "\t", "\r"}

RECURSIVE SkipWs(_, _)
SkipWs(s, i) ==
    IF i <= Len(s) /\ IsWs(Char(s, i)) THEN SkipWs(s, i + 1) ELSE i

\* First position at or after i that holds no digit.
RECURSIVE DigitRun(_, _)
DigitRun(s, i) ==
    IF i <= Len(s) /\ IsDigit(Char(s, i)) THEN DigitRun(s, i + 1) ELSE i

\* Value of the digits s[i..j-1] appended to the number acc.
RECURSIVE DigitsVal(_, _, _, _)
DigitsVal(s, i, j, acc) ==
    IF i >= j THEN acc
    ELSE DigitsVal(s, i + 1, j, acc * 10 + DigitVal(Char(s, i)))

\* First position at or after j holding a quote, a backslash or a control
\* character, Len(s) + 1 when there is none (scanned a window at a time).
RECURSIVE NextSpecial(_, _)
NextSpecial(s, j) ==
    Let(IF j + 15 < Len(s) THEN j + 15 ELSE Len(s), LAMBDA hi :
    Let({i \in j..hi : Char(s, i) \in {"\"", "\\", "\n", "\t", "\r", "\f"}}, LAMBDA S :
        IF S # {} THEN Least(S)
        ELSE IF hi >= Len(s) THEN Len(s) + 1
        ELSE NextSpecial(s, hi + 1)))

\* The character an escape letter stands for, "" when it is no escape.
Unescape(e) ==
    CASE e \in {"\"", "\\", "/"} -> e
      [] e = "n" -> "\n"
      [] e = "t" -> "\t"
      [] e = "r" -> "\r"
      [] e = "f" -> "\f"
      [] OTHER -> ""

\* Body of a string literal from position j (after the opening quote).
RECURSIVE ParseStringBody(_, _, _)
ParseStringBody(s, j, acc) ==
    Let(NextSpecial(s, j), LAMBDA n :
        IF n > Len(s) THEN Fail
        ELSE IF Char(s, n) = "\"" THEN Ok(Str(acc \o SubSeq(s, j, n - 1)), n + 1)
        ELSE IF Char(s, n) # "\\" THEN Fail
        ELSE IF n + 1 > Len(s) THEN Fail
        ELSE IF Unescape(Char(s, n + 1)) = "" THEN Fail
        ELSE Let(acc \o SubSeq(s, j, n - 1) \o Unescape(Char(s, n + 1)), LAMBDA run :
                 ParseStringBody(s, n + 2, run)))

\* A decimal literal at s[i0..]: digits [. digits] [e [+-] digits].  strict
\* is the JSON grammar (no leading zero, digits on both sides of the point
\* and after the e); otherwise the parseFloat grammar (StrDecimalLiteral).
DecimalLiteral(s, i0, neg, strict) ==
    Let(DigitRun(s, i0), LAMBDA i1 :
    Let(i1 <= Len(s) /\ Char(s, i1) = ".", LAMBDA hasFrac :
    Let(IF hasFrac THEN DigitRun(s, i1 + 1) ELSE i1, LAMBDA f1 :
    Let(f1 <= Len(s) /\ Char(s, f1) \in {"e", "E"}, LAMBDA hasExp :
    Let(hasExp /\ f1 + 1 <= Len(s) /\ Char(s, f1 + 1) \in {"+", "-"}, LAMBDA hasSign :
    Let(IF hasSign THEN f1 + 2 ELSE f1 + 1, LAMBDA x0 :
    Let(IF hasExp THEN DigitRun(s, x0) ELSE f1, LAMBDA x1 :
        LET f0 == i1 + 1
            useExp == hasExp /\ x1 > x0
            expNeg == hasSign /\ Char(s, f1 + 1) = "-"
            expVal == IF useExp THEN DigitsVal(s, x0, x1, 0) ELSE 0
            fracLen == IF hasFrac THEN f1 - f0 ELSE 0
            mant == DigitsVal(s, f0, f1, DigitsVal(s, i0, i1, 0))
            scale == fracLen - (IF expNeg THEN 0 - expVal ELSE expVal)
            anyDigit == i1 > i0 \/ (hasFrac /\ f1 > f0)
            end == IF useExp THEN x1 ELSE f1
        IN  IF ~anyDigit THEN Fail
            ELSE IF strict /\ i1 = i0 THEN Fail
            ELSE IF strict /\ i1 - i0 > 1 /\ Char(s, i0) = "0" THEN Fail
            ELSE IF strict /\ hasFrac /\ f1 = f0 THEN Fail
            ELSE IF strict /\ hasExp /\ x1 = x0 THEN Fail
            ELSE Ok(Dec(IF neg THEN 0 - mant ELSE mant, scale), end))))))))

\* number = [-] int [frac] [exp]
ParseNumber(s, i) ==
    IF i <= Len(s) /\ Char(s, i) = "-"
    THEN DecimalLiteral(s, i + 1, TRUE, TRUE)
    ELSE DecimalLiteral(s, i, FALSE, TRUE)

ParseLiteral(s, i, word, v) ==
    IF i + Len(word) - 1 <= Len(s) /\ SubSeq(s, i, i + Len(word) - 1) = word
    THEN Ok(v, i + Len(word))
    ELSE Fail

RECURSIVE ParseValue(_, _)
RECURSIVE ParseElements(_, _, _)
RECURSIVE ParseMembers(_, _, _)

\* One value followed by white space: i is the position of what follows.
ParseElement(s, i) ==
    Let(ParseValue(s, i), LAMBDA r :
        IF ~r.ok THEN Fail ELSE Ok(r.v, SkipWs(s, r.i)))

\* Elements of an array after "[" or after a comma; acc holds those read.
ParseElements(s, i, acc) ==
    Let(ParseElement(s, i), LAMBDA r :
        IF ~r.ok \/ r.i > Len(s) THEN Fail
        ELSE IF Char(s, r.i) = "," THEN ParseElements(s, r.i + 1, Append(acc, r.v))
        ELSE IF Char(s, r.i) = "]" THEN Ok(Arr(Append(acc, r.v)), r.i + 1)
        ELSE Fail)

NoMember == [ok |-> FALSE, k |-> "", v |-> Undef, i |-> 0]

\* One "key": value member followed by white space.
ParseMember(s, i) ==
    Let(SkipWs(s, i), LAMBDA k0 :
        IF k0 > Len(s) \/ Char(s, k0) # "\"" THEN NoMember
        ELSE Let(ParseStringBody(s, k0 + 1, ""), LAMBDA k :
             IF ~k.ok THEN NoMember
             ELSE Let(SkipWs(s, k.i), LAMBDA c :
                  IF c > Len(s) \/ Char(s, c) # ":" THEN NoMember
                  ELSE Let(ParseValue(s, c + 1), LAMBDA r :
                       IF ~r.ok THEN NoMember
                       ELSE [ok |-> TRUE, k |-> k.v.v, v |-> r.v,
                             i |-> SkipWs(s, r.i)]))))

\* Members of an object after "{" or after a comma; on a repeated key the
\* later member wins.
ParseMembers(s, i, acc) ==
    Let(ParseMember(s, i), LAMBDA m :
        IF ~m.ok \/ m.i > Len(s) THEN Fail
        ELSE IF Char(s, m.i) = "," THEN ParseMembers(s, m.i + 1, (m.k :> m.v) @@ acc)
        ELSE IF Char(s, m.i) = "}" THEN Ok(Obj((m.k :> m.v) @@ acc), m.i + 1)
        ELSE Fail)

ParseValue(s, i) ==
    Let(SkipWs(s, i), LAMBDA j :
        IF j > Len(s) THEN Fail
        ELSE Let(Char(s, j), LAMBDA c :
             IF c = "{" THEN
                  Let(SkipWs(s, j + 1), LAMBDA n :
                      IF n <= Len(s) /\ Char(s, n) = "}" THEN Ok(EmptyObject, n + 1)
                      ELSE ParseMembers(s, j + 1, <<>>))
             ELSE IF c = "[" THEN
                  Let(SkipWs(s, j + 1), LAMBDA n :
                      IF n <= Len(s) /\ Char(s, n) = "]" THEN Ok(Arr(<<>>), n + 1)
                      ELSE ParseElements(s, j + 1, <<>>))
             ELSE IF c = "\"" THEN ParseStringBody(s, j + 1, "")
             ELSE IF c = "t" THEN ParseLiteral(s, j, "true", Bool(TRUE))
             ELSE IF c = "f" THEN ParseLiteral(s, j, "false", Bool(FALSE))
             ELSE IF c = "n" THEN ParseLiteral(s, j, "null", Null)
             ELSE IF c = "-" \/ IsDigit(c) THEN ParseNumber(s, j)
             ELSE Fail))

\* JSON.parse(s): the value, or a SyntaxError (ok = FALSE) unless the whole
\* string is one JSON value.
JSONparse(s) ==
    Let(ParseValue(s, 1), LAMBDA r :
        IF r.ok /\ SkipWs(s, r.i) > Len(s) THEN r ELSE Fail)

(***************************************************************************)
(* Number conversions                                                      *)
(***************************************************************************)
RECURSIVE NatToString(_)
NatToString(n) ==
    IF n < 10 THEN Char(Digits, n + 1)
    ELSE NatToString(n \div 10) \o Char(Digits, (n % 10) + 1)

\* The k-digit decimal rendering of n, padded with leading zeros.
RECURSIVE PadDigits(_, _)
PadDigits(n, k) ==
    IF k <= 0 THEN "" ELSE PadDigits(n \div 10, k - 1) \o Char(Digits, (n % 10) + 1)

\* Number::toString of a finite number (decimal notation).
NumberToString(d) ==
    LET a == IF d.m < 0 THEN 0 - d.m ELSE d.m
        p == Pow10(d.e)
    IN  (IF d.m < 0 THEN "-" ELSE "")
            \o NatToString(a \div p)
            \o (IF d.e > 0 THEN "." \o PadDigits(a % p, d.e) ELSE "")

\* ToString(x), the conversion parseFloat and template literals apply.
RECURSIVE JSToString(_)
RECURSIVE JoinComma(_, _)
JoinComma(a, i) ==
    IF i > Len(a) THEN ""
    ELSE (IF Nullish(a[i]) THEN "" ELSE JSToString(a[i]))
            \o (IF i < Len(a) THEN "," \o JoinComma(a, i + 1) ELSE "")

JSToString(x) ==
    CASE x.t = "str" -> x.v
      [] x.t = "num" -> NumberToString(x.v)
      [] x.t = "NaN" -> "NaN"
      [] x.t = "inf" -> IF x.v < 0 THEN "-Infinity" ELSE "Infinity"
      [] x.t = "undef" -> "undefined"
      [] x.t = "null" -> "null"
      [] x.t = "bool" -> IF x.v THEN "true" ELSE "false"
      [] x.t = "arr" -> JoinComma(x.v, 1)
      [] OTHER -> "[object Object]"

\* A conversion that takes the whole string or nothing (as Number does).
parseFloat_WholeString(x) ==
    Let(JSToString(x), LAMBDA s :
    Let(SkipWs(s, 1), LAMBDA i :
        LET neg == i <= Len(s) /\ Char(s, i) = "-"
            i0 == IF i <= Len(s) /\ Char(s, i) \in {"+", "-"} THEN i + 1 ELSE i
        IN  Let(DecimalLiteral(s, i0, neg, FALSE), LAMBDA r :
                IF r.ok /\ SkipWs(s, r.i) > Len(s) THEN r.v ELSE NaN)))

\* parseFloat(x): the longest prefix of the trimmed string that is a decimal
\* literal ([+-] digits [. digits] [e[+-]digits], or [+-]Infinity), else NaN.
parseFloat(x) ==
    Let(JSToString(x), LAMBDA s :
    Let(SkipWs(s, 1), LAMBDA i :
        LET hasSign == i <= Len(s) /\ Char(s, i) \in {"+", "-"}
            neg == hasSign /\ Char(s, i) = "-"
            i0 == IF hasSign THEN i + 1 ELSE i
        IN  IF i0 + 7 <= Len(s) /\ SubSeq(s, i0, i0 + 7) = "Infinity"
            THEN Inf(IF neg THEN -1 ELSE 1)
            ELSE Let(DecimalLiteral(s, i0, neg, FALSE), LAMBDA r :
                     IF r.ok THEN r.v ELSE NaN)))

(***************************************************************************)
(* AIService.validateCondition                                             *)
(***************************************************************************)
validConditions == <<"new", "like-new", "excellent", "good", "fair", "poor", "for-parts">>

conditionMap == <<
    <<"brand new", "new">>,
    <<"mint", "like-new">>,
    <<"very good", "excellent">>,
    <<"used", "good">>,
    <<"acceptable", "fair">>,
    <<"damaged", "poor">>,
    <<"broken", "for-parts">> >>

Returned(v) == [threw |-> FALSE, v |-> v]
Thrown(e) == [threw |-> TRUE, v |-> e]

\* Calling a String method on x through x?.method(...): undefined for a
\* nullish x, a TypeError for any other value that is not a string.
MethodCallThrows(x) == ~Nullish(x) /\ x.t # "str"

\* The conditionMap lookup with key equality in place of includes.
mapCondition_ExactKey(normalized) ==
    Let({i \in 1..Len(conditionMap) : normalized = conditionMap[i][1]},
        LAMBDA hits : IF hits # {} THEN conditionMap[Least(hits)][2] ELSE "good")

\* The value returned when normalized is not one of validConditions: the
\* value of the first conditionMap key that normalized includes, else 'good'.
mapCondition(normalized) ==
    Let({i \in 1..Len(conditionMap) : includes(normalized, conditionMap[i][1])},
        LAMBDA hits : IF hits # {} THEN conditionMap[Least(hits)][2] ELSE "good")

\* validateCondition without the final default: the cleaned text is returned
\* when nothing matches.
validateCondition_NoDefault(condition) ==
    IF MethodCallThrows(condition) THEN Thrown("TypeError")
    ELSE IF Nullish(condition) THEN Returned(Str("good"))
    ELSE Let(stripNonCondition(toLowerCase(condition.v)), LAMBDA normalized :
             IF \E i \in 1..Len(validConditions) : validConditions[i] = normalized
             THEN Returned(Str(normalized))
             ELSE IF mapCondition(normalized) # "good" \/ includes(normalized, "used")
             THEN Returned(Str(mapCondition(normalized)))
             ELSE Returned(Str(normalized)))

validateCondition(condition) ==
    IF MethodCallThrows(condition) THEN Thrown("TypeError")
    ELSE IF Nullish(condition) THEN Returned(Str("good"))
    ELSE Let(stripNonCondition(toLowerCase(condition.v)), LAMBDA normalized :
             IF \E i \in 1..Len(validConditions) : validConditions[i] = normalized
             THEN Returned(Str(normalized))
             ELSE Returned(Str(mapCondition(normalized))))

(***************************************************************************)
(* AIService.parseAIResponse                                               *)
(***************************************************************************)
TitleLimit == 200
DescriptionLimit_Short == 500
DescriptionLimit == 1000
FallbackProductDescriptionLimit == 500
CategoryTagLimit == 10

\* The lazy match /\{[\s\S]*?\}/: from the first "{" to the first "}" after it.
jsonMatch_Lazy(text) ==
    Let(IndexOfChar(text, "{"), LAMBDA first :
    Let({i \in (first + 1)..Len(text) : Char(text, i) = "}"}, LAMBDA closes :
        IF first > 0 /\ closes # {}
        THEN [found |-> TRUE, s |-> SubSeq(text, first, Least(closes))]
        ELSE [found |-> FALSE, s |-> ""]))

\* text.match(/\{[\s\S]*\}/): from the first "{" to the last "}" after it.
jsonMatch(text) ==
    Let(IndexOfChar(text, "{"), LAMBDA first :
    Let(LastIndexOfChar(text, "}"), LAMBDA last :
        IF first > 0 /\ last > first
        THEN [found |-> TRUE, s |-> SubSeq(text, first, last)]
        ELSE [found |-> FALSE, s |-> ""]))

ArrayOrEmpty(x) == IF IsArray(x) THEN x ELSE Arr(<<>>)

slice0(a, n) == IF Len(a) <= n THEN a ELSE SubSeq(a, 1, n)

\* The record built in the try block from the decoded object.
StructuredRecord(parsed, provider, now) ==
    LET seoTitle == Get(parsed, "seoTitle")
        specs == Get(parsed, "specifications")
        kw == Get(parsed, "seoKeywords")
        price == Get(parsed, "suggestedPrice")
        tags == Get(parsed, "marketplaceTags")
    IN  [ title |-> Or(IF Nullish(seoTitle) THEN Undef
                        ELSE Str(substring0(seoTitle.v, TitleLimit)),
                       Str("Product Listing")),
          description |-> Or(Get(parsed, "productDescription"), Str("")),
          marketplaceContent |-> Obj([
              seoTitle |-> Or(seoTitle, Str("")),
              keyFeatures |-> ArrayOrEmpty(Get(parsed, "keyFeatures")),
              productDescription |-> Or(Get(parsed, "productDescription"), Str("")),
              shortMarketplaceSummary |-> Or(Get(parsed, "shortMarketplaceSummary"), Str("")),
              longSeoDescription |-> Or(Get(parsed, "longSeoDescription"), Str("")),
              seoKeywords |-> Obj([
                  primary |-> ArrayOrEmpty(Get(kw, "primary")),
                  secondary |-> ArrayOrEmpty(Get(kw, "secondary")),
                  longTail |-> ArrayOrEmpty(Get(kw, "longTail")) ]),
              marketplaceTags |-> ArrayOrEmpty(tags) ]),
          category |-> Obj([
              main |-> Or(Get(specs, "category"), Str("Other")),
              sub |-> Str(""),
              tags |-> IF IsArray(tags) THEN Arr(slice0(tags.v, CategoryTagLimit))
                       ELSE Arr(<<>>) ]),
          condition |-> validateCondition(Get(parsed, "condition")).v,
          conditionNotes |-> Or(Get(parsed, "conditionNotes"), Str("")),
          specifications |-> Obj([
              brand |-> Or(Get(specs, "brand"), Str("")),
              model |-> Or(Get(specs, "model"), Str("")),
              modelNumber |-> Or(Get(specs, "modelNumber"), Str("")),
              category |-> Or(Get(specs, "category"), Str("")),
              subCategory |-> Or(Get(specs, "subCategory"), Str("")),
              dimensions |-> Or(Get(specs, "dimensions"), Str("")),
              weight |-> Or(Get(specs, "weight"), Str("")),
              year |-> Or(Get(specs, "year"), Null),
              color |-> Or(Get(specs, "color"), Str("")),
              size |-> Or(Get(specs, "size"), Or(Get(specs, "capacity"), Str(""))),
              material |-> Or(Get(specs, "material"), Str("")),
              capacity |-> Or(Get(specs, "capacity"), Str("")),
              condition |-> Or(Get(specs, "condition"), Str("")),
              powerSpecs |-> Or(Get(specs, "powerSpecs"), Str("")),
              connectivity |-> Or(Get(specs, "connectivity"), Str("")),
              compatibility |-> Or(Get(specs, "compatibility"), Str("")),
              warranty |-> Or(Get(specs, "warranty"), Str("")),
              origin |-> Or(Get(specs, "origin"), Str("")),
              certifications |-> Or(Get(specs, "certifications"), Str("")),
              features |-> ArrayOrEmpty(Get(parsed, "keyFeatures")),
              allSpecs |-> Or(Get(specs, "allSpecs"), EmptyObject) ]),
          suggestedPrice |-> Obj([
              min |-> Or(parseFloat(Get(price, "min")), Num(0)),
              max |-> Or(parseFloat(Get(price, "max")), Num(0)),
              currency |-> Or(Get(price, "currency"), Str("USD")),
              reasoning |-> Or(Get(price, "reasoning"), Str("")) ]),
          searchKeywords |-> Arr(ArrayOrEmpty(Get(kw, "primary")).v
                                   \o ArrayOrEmpty(Get(kw, "secondary")).v),
          warnings |-> ArrayOrEmpty(Get(parsed, "warnings")),
          confidence |-> Or(parseFloat(Get(parsed, "confidence")), Dec(5, 1)),
          aiProvider |-> provider,
          generatedAt |-> now,
          error |-> Undef ]

\* The record built in the catch block.
FallbackRecord(text, provider, now) ==
    [ title |-> Str("Product for Sale"),
      description |-> Str(substring0(text, DescriptionLimit)),
      marketplaceContent |-> Obj([
          seoTitle |-> Str(""),
          keyFeatures |-> Arr(<<>>),
          productDescription |-> Str(substring0(text, FallbackProductDescriptionLimit)),
          shortMarketplaceSummary |-> Str(""),
          longSeoDescription |-> Str(""),
          seoKeywords |-> Obj([primary |-> Arr(<<>>), secondary |-> Arr(<<>>),
                               longTail |-> Arr(<<>>)]),
          marketplaceTags |-> Arr(<<>>) ]),
      category |-> Obj([main |-> Str("Other"), sub |-> Str(""), tags |-> Arr(<<>>)]),
      condition |-> Str("good"),
      conditionNotes |-> Str(""),
      specifications |-> EmptyObject,
      suggestedPrice |-> Obj([min |-> Num(0), max |-> Num(0),
                              currency |-> Str("USD"), reasoning |-> Str("")]),
      searchKeywords |-> Arr(<<>>),
      warnings |-> Arr(<<>>),
      confidence |-> Dec(3, 1),
      aiProvider |-> provider,
      generatedAt |-> now,
      error |-> Str("Failed to parse structured response") ]

\* The outcome of the try block: thrown is TRUE when text.match is called
\* on a non-string, when nothing matches (the explicit throw), on a
\* JSON.parse SyntaxError, or when a String method is called on a field that
\* is not a string.
TryBlock(text, provider, now) ==
    IF text.t # "str" THEN Thrown("TypeError")
    ELSE Let(jsonMatch(text.v), LAMBDA m :
         IF ~m.found THEN Thrown("Error: Could not parse AI response")
         ELSE Let(JSONparse(m.s), LAMBDA d :
              IF ~d.ok THEN Thrown("SyntaxError")
              ELSE IF MethodCallThrows(Get(d.v, "seoTitle")) THEN Thrown("TypeError")
              ELSE IF MethodCallThrows(Get(d.v, "condition")) THEN Thrown("TypeError")
              ELSE Let(d.v, LAMBDA parsed :
                       Returned(StructuredRecord(parsed, provider, now)))))

\* parseAIResponse without its try/catch: what the try block throws
\* reaches the caller.
parseAIResponse_NoCatch(text, provider, now) == TryBlock(text, provider, now)

\* parseAIResponse whose catch block rebuilds the record from an empty
\* payload instead of the fallback record.
parseAIResponse_LenientDecode(text, provider, now) ==
    Let(TryBlock(text, provider, now), LAMBDA r :
        IF ~r.threw THEN r
        ELSE IF text.t = "str" THEN Returned(StructuredRecord(EmptyObject, provider, now))
        ELSE Thrown("TypeError"))

\* text is the JavaScript value handed in (a string, or null when the
\* backend sent no content); the catch block calls text.substring, which
\* throws again when text is not a string.
parseAIResponse(text, provider, now) ==
    Let(TryBlock(text, provider, now), LAMBDA r :
        IF ~r.threw THEN r
        ELSE IF text.t = "str" THEN Returned(FallbackRecord(text.v, provider, now))
        ELSE Thrown("TypeError"))

(***************************************************************************)
(* Provider texts handed to the parser                                     *)
(***************************************************************************)
RECURSIVE Rep(_, _)
Rep(s, n) ==
    IF n <= 0 THEN ""
    ELSE IF n % 2 = 0 THEN LET h == Rep(s, n \div 2) IN h \o h
    ELSE s \o Rep(s, n - 1)

Quote(s) == "\"" \o s \o "\""

RECURSIVE Render(_)
\* The JSON text of an object from its <<key, literal>> members.
Render(fields) ==
    IF fields = <<>> THEN ""
    ELSE Quote(Head(fields)[1]) \o ": " \o Head(fields)[2]
            \o (IF Len(fields) > 1 THEN ", " \o Render(Tail(fields)) ELSE "")

Object(fields) == "{" \o Render(fields) \o "}"

\* fields with the member k given the literal lit (appended when absent).
Vary(fields, k, lit) ==
    LET NotK(f) == f[1] # k
    IN  Append(SelectSeq(fields, NotK), <<k, lit>>)

Drop(fields, k) ==
    LET NotK(f) == f[1] # k
    IN  SelectSeq(fields, NotK)

BasePrice ==
    << <<"min", "150">>, <<"max", "199.99">>, <<"currency", Quote("AUD")>>,
       <<"reasoning", Quote("Recent sales")>> >>

BaseSpecs ==
    << <<"brand", Quote("Sony")>>, <<"model", Quote("WH-1000XM4")>>,
       <<"category", Quote("Electronics")>>, <<"capacity", Quote("30h")>>,
       <<"year", "2020">>, <<"color", Quote("Black")>>,
       <<"allSpecs", "{\"driver\": \"40mm\"}">> >>

BaseKeywords ==
    << <<"primary", "[\"sony\"]">>, <<"secondary", "[\"anc\", \"wireless\"]">>,
       <<"longTail", "[]">> >>

ElevenTags ==
    "[\"t1\", \"t2\", \"t3\", \"t4\", \"t5\", \"t6\", \"t7\", \"t8\", \"t9\", \"t10\", \"t11\"]"

BaseFields ==
    << <<"seoTitle", Quote("Sony WH-1000XM4 Headphones")>>,
       <<"keyFeatures", "[\"Noise cancelling\", \"30h battery\"]">>,
       <<"productDescription", Quote("Premium wireless headphones.")>>,
       <<"specifications", Object(BaseSpecs)>>,
       <<"shortMarketplaceSummary", Quote("Great headphones.")>>,
       <<"longSeoDescription", Quote("Buy Sony headphones.")>>,
       <<"seoKeywords", Object(BaseKeywords)>>,
       <<"marketplaceTags", ElevenTags>>,
       <<"condition", Quote("like-new")>>,
       <<"conditionNotes", Quote("Light wear")>>,
       <<"suggestedPrice", Object(BasePrice)>>,
       <<"warnings", "[\"Check battery\"]">>,
       <<"confidence", "0.95">> >>

LongTitleLen == 201
LongTextLen == 1001

ConditionLits ==
    { Quote(""), Quote("good"), Quote("Like-New"), Quote("Brand New, sealed"),
      Quote("kinda broken"), Quote("mint condition"), Quote("very good"),
      Quote("weird"), Quote("FOR-PARTS"), "5", "null", "true", "[\"new\"]", "{}" }

TitleLits ==
    { Quote(""), Quote(Rep("T", LongTitleLen)), "7", "null", "false", "[\"a\"]" }

ConfidenceLits ==
    { "0", "1", "0.3", "1.5", "-1", Quote("0.8"), Quote("abc"), "null", "[0.7]" }

PriceLits ==
    { "0", "-5", Quote("199.99abc"), Quote("abc"), Quote("12"), "null", "true",
      Quote(" 7.5e1 AUD") }

ListLits == { Quote("not a list"), "null", "{}", "[]", "5" }

StringLits == { Quote(""), "5", "null", "0", "[\"s\"]" }

\* The payloads: the base object and its one-member variations.
Payloads ==
    { Object(BaseFields), "{}" }
    \cup { Object(Vary(BaseFields, "condition", l)) : l \in ConditionLits }
    \cup { Object(Vary(BaseFields, "seoTitle", l)) : l \in TitleLits }
    \cup { Object(Vary(BaseFields, "confidence", l)) : l \in ConfidenceLits }
    \cup { Object(Vary(BaseFields, "suggestedPrice", Object(Vary(BasePrice, "min", l)))) :
             l \in PriceLits }
    \cup { Object(Vary(BaseFields, "suggestedPrice", Object(Vary(BasePrice, "max", l)))) :
             l \in PriceLits }
    \cup { Object(Vary(BaseFields, "suggestedPrice", l)) :
             l \in {"null", "5", Quote("cheap"), "{}", "{\"currency\": \"\"}"} }
    \cup { Object(Vary(BaseFields, k, l)) :
             k \in {"keyFeatures", "warnings", "marketplaceTags"}, l \in ListLits }
    \cup { Object(Vary(BaseFields, k, l)) :
             k \in {"productDescription", "conditionNotes"}, l \in StringLits }
    \cup { Object(Vary(BaseFields, "seoKeywords", l)) :
             l \in {"null", "[]", "{\"primary\": \"sony\", \"secondary\": [\"anc\"]}"} }
    \cup { Object(Vary(BaseFields, "specifications", l)) :
             l \in {"null", Quote("Sony"), "{}",
                    Object(Vary(BaseSpecs, "year", "0")),
                    Object(Vary(BaseSpecs, "brand", Quote(""))),
                    Object(Vary(BaseSpecs, "size", Quote("M"))),
                    Object(Drop(BaseSpecs, "category"))} }
    \cup { Object(Drop(BaseFields, k)) :
             k \in {"seoTitle", "condition", "confidence", "suggestedPrice",
                    "keyFeatures", "specifications", "seoKeywords"} }
    \cup { Object(Append(BaseFields, <<"condition", Quote("poor")>>)) }

\* Texts with no brace pair, or whose brace-delimited part is not JSON.
UndecodableTexts ==
    { "", "I cannot help with that.", "} before {", "only { an opening brace",
      "{seoTitle: Sony}", "{\"seoTitle\": \"Sony\",}", "{\"seoTitle\": \"So",
      "{\"confidence\": 01}", "{'condition': 'new'}",
      Rep("x", LongTextLen),
      "{" \o Rep("y", LongTextLen) \o "}" }

\* Prose around a payload: none, plain, or carrying a brace of its own.
Wrapped(p) ==
    { p, "Here is the listing:\n" \o p \o "\nLet me know if you need more.",
      "json\n" \o p \o "\n",
      "{note} " \o p, p \o " (end})" }

Texts ==
    Payloads
    \cup UNION { Wrapped(p) : p \in {Object(BaseFields),
                                      Object(Vary(BaseFields, "seoTitle", "7")),
                                      "{}"} }
    \cup UndecodableTexts

Providers == {"gemini", "openai"}

(***************************************************************************)
(* AIService.buildPrompt (the fixed blocks of the template are abbreviated *)
(* to their first words; the interpolations are as in the source)          *)
(***************************************************************************)
\* A prompt that carries the time of the call.
buildPrompt_Dated(modelNumber, additionalInfo) ==
    "Act as a senior e-commerce content strategist. Generated at "
        \o NatToString(clock) \o " for: **"
        \o JSToString(Or(modelNumber, Str("the product shown in the images")))
        \o (IF Truthy(additionalInfo)
            THEN "\n\n**Additional Context:** " \o JSToString(additionalInfo)
            ELSE "")

buildPrompt(modelNumber, additionalInfo) ==
    LET productIdentifier == Or(modelNumber, Str("the product shown in the images"))
    IN  "Act as a senior e-commerce content strategist. Generate premium marketplace content for this product: **"
            \o JSToString(productIdentifier)
            \o "** Deliver the output in strict JSON format. Be thorough - more specifications = better listings"
            \o (IF Truthy(modelNumber)
                THEN "\n\n**Product Model Number:** " \o JSToString(modelNumber)
                        \o "\n\nLook up this exact model and provide: ..."
                ELSE "\n\n**Note:** Analyze the product from the images provided.\n\nExtract from images: ...")
            \o (IF Truthy(additionalInfo)
                THEN "\n\n**Additional Context:** " \o JSToString(additionalInfo)
                ELSE "")
            \o "\n\nBe accurate and honest about the condition."

(***************************************************************************)
(* AIService.generateTitle                                                 *)
(***************************************************************************)
GeneratedTitleLimit == 200

\* parts.join(' ')
RECURSIVE JoinSpace(_, _)
JoinSpace(a, i) ==
    IF i > Len(a) THEN ""
    ELSE (IF Nullish(a[i]) THEN "" ELSE JSToString(a[i]))
            \o (IF i < Len(a) THEN " " \o JoinSpace(a, i + 1) ELSE "")

\* The attribute pushed for the category: storage for Electronics, the
\* size after the word Size for Fashion, nothing otherwise.
CategoryParts(category, details) ==
    (IF category = Str("Electronics") /\ Truthy(Get(details, "storage"))
     THEN <<Get(details, "storage")>> ELSE <<>>)
    \o (IF category = Str("Fashion") /\ Truthy(Get(details, "size"))
        THEN <<Str("Size " \o JSToString(Get(details, "size")))>> ELSE <<>>)

\* generateTitle joining the four slots without skipping the empty ones.
generateTitle_KeepEmpty(brand, model, category, additionalDetails) ==
    LET details == IF additionalDetails.t = "undef" THEN EmptyObject ELSE additionalDetails
        attribute == CategoryParts(category, details)
    IN  IF details.t = "null" THEN Thrown("TypeError")
        ELSE Returned(Str(substring0(
                JoinSpace(<<brand, model,
                            IF attribute = <<>> THEN Str("") ELSE attribute[1],
                            Get(details, "color")>>, 1),
                GeneratedTitleLimit)))

\* additionalDetails = {} is the parameter default (taken for undefined
\* only: reading a property of null throws).
generateTitle(brand, model, category, additionalDetails) ==
    LET details == IF additionalDetails.t = "undef" THEN EmptyObject ELSE additionalDetails
        parts == (IF Truthy(brand) THEN <<brand>> ELSE <<>>)
                 \o (IF Truthy(model) THEN <<model>> ELSE <<>>)
                 \o CategoryParts(category, details)
                 \o (IF Truthy(Get(details, "color")) THEN <<Get(details, "color")>> ELSE <<>>)
    IN  IF details.t = "null" THEN Thrown("TypeError")
        ELSE Returned(Str(substring0(JoinSpace(parts, 1), GeneratedTitleLimit)))

(***************************************************************************)
(* Errors                                                                  *)
(***************************************************************************)
AppError(message, statusCode) ==
    [name |-> "AppError", message |-> message, statusCode |-> statusCode]

\* An error raised by a collaborator (fetch, a backend SDK) or the runtime.
ForeignError(name, message) ==
    [name |-> name, message |-> message, statusCode |-> 0]

NoError == [name |-> "none", message |-> "", statusCode |-> 0]

InvalidRequestError == AppError("Either images or model number is required", 400)
NotConfiguredError == AppError("AI service not configured", 500)
GenerationFailedError == AppError("Failed to analyze product images", 500)

configVars == <<preferredProvider, geminiModel, openai>>
callVars == <<pc, request, fetches, sent, reply, caught, outcome>>
parseVars == <<rawText, providerId, parsePc, parseOut>>
directVars == <<history>>
routeVars == <<http>>
appVars == <<users, listings, req, webhookSecret>>
vars == <<configVars, clock, callVars, parseVars, directVars, routeVars, appVars>>

MaxClock == 1
MaxImages == 2

\* The calls the state keeps; Callers are those issued one at a time.
Calls == {"c1", "c2"}
Callers == {"c1"}
ProviderNames == {"gemini", "openai", "claude"}

\* The images argument: null, or a list of up to MaxImages URLs.
ImageLists ==
    {Null} \cup {Arr([i \in 1..n |-> Str(IF i % 2 = 1 THEN "https://img/1.jpg"
                                            ELSE "https://img/2.jpg")]) : n \in 0..MaxImages}

\* modelNumber = null and additionalInfo = null are the parameter defaults.
ModelNumbers == {Null, Str(""), Str("WH-1000XM4")}
AdditionalInfos == {Null, Str("boxed")}

\* What a backend can answer: a text, or a failure.
ReplyTexts ==
    { "Sure! {\"seoTitle\": \"Sony WH-1000XM4\", \"condition\": \"Used\", \"confidence\": 0.9}",
      "{\"seoTitle\": 7}",
      "I cannot help with that." }

NoReply == [kind |-> "none", text |-> Null]
TextReply(t) == [kind |-> "text", text |-> t]
RejectReply == [kind |-> "rejected", text |-> Null]
MalformedReply == [kind |-> "malformed", text |-> Null]

NotCalled == Returned("nothing")

\* POST /analyze-product: no request has arrived.
NoResponse ==
    [state |-> "none", files |-> Undef, raw |-> <<>>, body |-> <<>>,
     status |-> 0, success |-> FALSE, message |-> "", data |-> <<>>]

idleFetches == <<>>

\* The requests served at a time: two API requests and a webhook delivery.
Slots == {"r1", "r2", "w1"}

NoToken == [kind |-> "none", sub |-> ""]
NoBody == [f \in {} |-> ""]

\* A slot before express has routed a request to it.  next is whether
\* authenticate called next(); verified and dbAccess whether verifyToken
\* and a User query were called for the request; listings the documents
\* of the response.
IdleRequest ==
    [pc |-> "idle", route |-> "", token |-> NoToken, id |-> 0, query |-> NoBody,
     body |-> NoBody, svix |-> {}, signed |-> FALSE, user |-> 0, next |-> FALSE,
     verified |-> FALSE, dbAccess |-> FALSE, status |-> 0, message |-> "",
     listings |-> <<>>]

Init ==
    /\ preferredProvider \in ProviderNames
    /\ geminiModel \in BOOLEAN
    /\ openai \in BOOLEAN
    /\ clock = 0
    /\ pc = [c \in Calls |-> "idle"]
    /\ request = [c \in Calls |-> [images |-> Null, modelNumber |-> Null,
                                   additionalInfo |-> Null]]
    /\ fetches = [c \in Calls |-> idleFetches]
    /\ sent = [c \in Calls |-> <<>>]
    /\ reply = [c \in Calls |-> NoReply]
    /\ caught = [c \in Calls |-> NoError]
    /\ outcome = [c \in Calls |-> NotCalled]
    /\ rawText = Str("")
    /\ providerId = "gemini"
    /\ parsePc = "unused"
    /\ parseOut = NotCalled
    /\ history = <<>>
    /\ http = [c \in Calls |-> NoResponse]
    /\ users = <<>>
    /\ listings = <<>>
    /\ req = [r \in Slots |-> IdleRequest]
    /\ webhookSecret = TRUE

(***************************************************************************)
(* AIService.analyzeProductImages and the two backends                     *)
(***************************************************************************)
\* !images || images.length === 0
NoImages(images) == ~Truthy(images) \/ (IsArray(images) /\ Len(images.v) = 0)

\* analyzeProductImages without the request check (the older variant).
InvalidRequest_Unchecked(images, modelNumber) == FALSE

\* (!images || images.length === 0) && !modelNumber
InvalidRequest(images, modelNumber) == NoImages(images) /\ ~Truthy(modelNumber)

\* A catch block that rethrows what it caught.
CatchBlock_Rethrow(error) == error

\* The catch block of analyzeProductImages: whatever was thrown in the try
\* block is logged and replaced by one fixed AppError.
CatchBlock(error) == GenerationFailedError

\* The call c ends by throwing from the catch block.
FailCall(c, error) ==
    /\ caught' = [caught EXCEPT ![c] = error]
    /\ outcome' = [outcome EXCEPT ![c] = Thrown(CatchBlock(error))]
    /\ pc' = [pc EXCEPT ![c] = "done"]

\* A request that is never without an image part: a blank one is attached
\* when there is none.
GeminiRequest_Placeholder(prompt, imageParts) ==
    [backend |-> "gemini", prompt |-> prompt,
     images |-> IF imageParts = <<>>
                THEN <<[data |-> <<"base64", "", 0>>, mimeType |-> "image/jpeg"]>>
                ELSE imageParts]

\* geminiModel.generateContent([prompt, ...imageParts])
GeminiRequest(prompt, imageParts) ==
    [backend |-> "gemini", prompt |-> prompt, images |-> imageParts]

\* openai.chat.completions.create({model: 'gpt-4o', messages, ...}): the user
\* content is the prompt alone, or the prompt followed by the image URLs.
OpenAIRequest(prompt, images) ==
    [backend |-> "openai", prompt |-> prompt,
     images |-> IF NoImages(images) THEN <<>> ELSE images.v]

\* One inlineData part, from a settled fetch: the body is encoded whatever
\* the response status, and a missing content-type becomes image/jpeg.
ImagePart(url, response) ==
    [data |-> <<"base64", url, response.status>>,
     mimeType |-> Or(response.contentType, Str("image/jpeg")).v]

\* How a fetch can settle.  order is the position of the settlement among
\* the settlements of the call's fetches (0 until it has settled).
FetchResponses ==
    { [state |-> "resolved", status |-> 200, contentType |-> Str("image/png"), order |-> 0],
      [state |-> "resolved", status |-> 200, contentType |-> Null, order |-> 0],
      [state |-> "resolved", status |-> 404, contentType |-> Str("text/html"), order |-> 0],
      [state |-> "rejected", status |-> 0, contentType |-> Null, order |-> 0] }

PendingFetch == [state |-> "pending", status |-> 0, contentType |-> Null, order |-> 0]

\* The number of fetches of a call that have settled.
Settled(fs) == Cardinality({j \in DOMAIN fs : fs[j].state # "pending"})

\* The parts in the order in which the fetches settled.
AssembleParts_CompletionOrder(urls, responses) ==
    [k \in DOMAIN responses |->
        LET j == CHOOSE j \in DOMAIN responses : responses[j].order = k
        IN  ImagePart(urls[j].v, responses[j])]

\* The array Promise.all resolves to: one part per input URL, at the
\* position of that URL, whatever the order in which the fetches settled.
AssembleParts(urls, responses) ==
    [j \in DOMAIN responses |-> ImagePart(urls[j].v, responses[j])]

analyzeProductImages(c, images, modelNumber, additionalInfo) ==
    /\ pc[c] = "idle"
    /\ request' = [request EXCEPT ![c] = [images |-> images, modelNumber |-> modelNumber,
                                          additionalInfo |-> additionalInfo]]
    /\ UNCHANGED <<configVars, clock, reply, parseVars, directVars, routeVars, appVars>>
    /\ IF InvalidRequest(images, modelNumber)
       THEN /\ FailCall(c, InvalidRequestError)
            /\ UNCHANGED <<fetches, sent>>
       ELSE IF preferredProvider = "gemini" /\ geminiModel
       THEN \* analyzeWithGemini up to its first await
            IF NoImages(images)
            THEN /\ sent' = [sent EXCEPT ![c] =
                        Append(@, GeminiRequest(buildPrompt(modelNumber, additionalInfo), <<>>))]
                 /\ pc' = [pc EXCEPT ![c] = "gemini"]
                 /\ UNCHANGED <<fetches, caught, outcome>>
            ELSE /\ fetches' = [fetches EXCEPT ![c] = [i \in 1..Len(images.v) |-> PendingFetch]]
                 /\ pc' = [pc EXCEPT ![c] = "fetching"]
                 /\ UNCHANGED <<sent, caught, outcome>>
       ELSE IF preferredProvider = "openai" /\ openai
       THEN \* analyzeWithGPT4 up to its await
            /\ sent' = [sent EXCEPT ![c] =
                   Append(@, OpenAIRequest(buildPrompt(modelNumber, additionalInfo), images))]
            /\ pc' = [pc EXCEPT ![c] = "openai"]
            /\ UNCHANGED <<fetches, caught, outcome>>
       ELSE /\ FailCall(c, NotConfiguredError)
            /\ UNCHANGED <<fetches, sent>>

\* One fetch(imageUrl) of analyzeWithGemini settles.  Promise.all rejects on
\* the first rejection; the other fetches are not cancelled and settle
\* later, unobserved.  When the last one resolves, the parts are assembled
\* in input order and the backend is called.
FetchSettles(c, i, response) ==
    /\ i \in DOMAIN fetches[c]
    /\ fetches[c][i].state = "pending"
    /\ fetches' = [fetches EXCEPT ![c][i] =
                        [response EXCEPT !.order = Settled(fetches[c]) + 1]]
    /\ UNCHANGED <<configVars, clock, request, reply, parseVars, directVars, routeVars, appVars>>
    /\ IF pc[c] # "fetching"
       THEN UNCHANGED <<pc, sent, caught, outcome>>
       ELSE IF response.state = "rejected"
       THEN /\ FailCall(c, ForeignError("TypeError", "fetch failed"))
            /\ UNCHANGED sent
       ELSE IF \A j \in DOMAIN fetches[c] : j # i => fetches[c][j].state = "resolved"
       THEN /\ sent' = [sent EXCEPT ![c] = Append(@, GeminiRequest(
                   buildPrompt(request[c].modelNumber, request[c].additionalInfo),
                   AssembleParts(request[c].images.v, fetches'[c])))]
            /\ pc' = [pc EXCEPT ![c] = "gemini"]
            /\ UNCHANGED <<caught, outcome>>
       ELSE UNCHANGED <<pc, sent, caught, outcome>>

\* A service that keeps the parsed record in a field of the shared instance:
\* the record of the latest call replaces the result held for the others.
FinishWithParse_SharedResult(c, text, provider) ==
    \E r \in {parseAIResponse(text, provider, clock)} :
        IF r.threw
        THEN FailCall(c, ForeignError(r.v, "parseAIResponse"))
        ELSE /\ outcome' = [d \in Calls |-> IF d = c \/ pc[d] = "done" THEN r ELSE outcome[d]]
             /\ pc' = [pc EXCEPT ![c] = "done"]
             /\ UNCHANGED caught

\* The call returns what parseAIResponse returned, or fails with what it threw.
FinishWithParse(c, text, provider) ==
    \E r \in {parseAIResponse(text, provider, clock)} :
        IF r.threw
        THEN FailCall(c, ForeignError(r.v, "parseAIResponse"))
        ELSE /\ outcome' = [outcome EXCEPT ![c] = r]
             /\ pc' = [pc EXCEPT ![c] = "done"]
             /\ UNCHANGED caught

\* generateContent settling, with one more attempt after a rejection.
GeminiReplies_Retry(c, r) ==
    /\ pc[c] = "gemini"
    /\ reply' = [reply EXCEPT ![c] = r]
    /\ UNCHANGED <<configVars, clock, request, fetches, parseVars, directVars, routeVars, appVars>>
    /\ IF r.kind = "rejected"
       THEN /\ sent' = [sent EXCEPT ![c] = Append(@, sent[c][Len(sent[c])])]
            /\ UNCHANGED <<pc, caught, outcome>>
       ELSE /\ UNCHANGED sent
            /\ IF r.kind = "malformed"
               THEN FailCall(c, ForeignError("GoogleGenerativeAIError", "response blocked"))
               ELSE FinishWithParse(c, r.text, "gemini")

\* generateContent settles: it rejects, or response.text() throws, or the
\* text is parsed.
GeminiReplies(c, r) ==
    /\ pc[c] = "gemini"
    /\ reply' = [reply EXCEPT ![c] = r]
    /\ UNCHANGED <<configVars, clock, request, fetches, sent, parseVars, directVars, routeVars, appVars>>
    /\ IF r.kind = "rejected"
       THEN FailCall(c, ForeignError("GoogleGenerativeAIError", "fetch failed"))
       ELSE IF r.kind = "malformed"
       THEN FailCall(c, ForeignError("GoogleGenerativeAIError", "response blocked"))
       ELSE FinishWithParse(c, r.text, "gemini")

\* chat.completions.create settles: it rejects, or the response has no
\* choices[0], or message.content (a string or null) is parsed.
OpenAIReplies(c, r) ==
    /\ pc[c] = "openai"
    /\ reply' = [reply EXCEPT ![c] = r]
    /\ UNCHANGED <<configVars, clock, request, fetches, sent, parseVars, directVars, routeVars, appVars>>
    /\ IF r.kind = "rejected"
       THEN FailCall(c, ForeignError("APIError", "request failed"))
       ELSE IF r.kind = "malformed"
       THEN FailCall(c, ForeignError("TypeError", "choices[0] is undefined"))
       ELSE FinishWithParse(c, r.text, "openai")

Tick ==
    /\ clock < MaxClock
    /\ clock' = clock + 1
    /\ UNCHANGED <<configVars, callVars, parseVars, directVars, routeVars, appVars>>

GeminiReplySet == {RejectReply, MalformedReply} \cup {TextReply(Str(t)) : t \in ReplyTexts}
OpenAIReplySet == GeminiReplySet \cup {TextReply(Null)}

Next ==
    \/ \E c \in Callers, images \in ImageLists, modelNumber \in ModelNumbers,
          additionalInfo \in AdditionalInfos :
            analyzeProductImages(c, images, modelNumber, additionalInfo)
    \/ \E c \in Callers, i \in 1..MaxImages, response \in FetchResponses :
            FetchSettles(c, i, response)
    \/ \E c \in Callers, r \in GeminiReplySet : GeminiReplies(c, r)
    \/ \E c \in Callers, r \in OpenAIReplySet : OpenAIReplies(c, r)
    \/ Tick

Spec == Init /\ [][Next]_vars

(***************************************************************************)
(* The parser called on its own                                            *)
(***************************************************************************)
ParseInputs == {Str(t) : t \in Texts} \cup {Null}

InitParse ==
    /\ preferredProvider = "gemini"
    /\ geminiModel = TRUE
    /\ openai = TRUE
    /\ clock = 0
    /\ pc = [c \in Calls |-> "idle"]
    /\ request = [c \in Calls |-> [images |-> Null, modelNumber |-> Null,
                                   additionalInfo |-> Null]]
    /\ fetches = [c \in Calls |-> idleFetches]
    /\ sent = [c \in Calls |-> <<>>]
    /\ reply = [c \in Calls |-> NoReply]
    /\ caught = [c \in Calls |-> NoError]
    /\ outcome = [c \in Calls |-> NotCalled]
    /\ rawText \in ParseInputs
    /\ providerId \in Providers
    /\ parsePc = "ready"
    /\ parseOut = NotCalled
    /\ history = <<>>
    /\ http = [c \in Calls |-> NoResponse]
    /\ users = <<>>
    /\ listings = <<>>
    /\ req = [r \in Slots |-> IdleRequest]
    /\ webhookSecret = TRUE

ParseCall ==
    /\ parsePc = "ready"
    /\ parseOut' = parseAIResponse(rawText, providerId, clock)
    /\ parsePc' = "done"
    /\ UNCHANGED <<configVars, clock, callVars, rawText, providerId, directVars, routeVars, appVars>>

NextParse == ParseCall \/ Tick

SpecParse == InitParse /\ [][NextParse]_vars

(***************************************************************************)
(* POST /analyze-product (src/src/routes/ai.routes.js)                     *)
(***************************************************************************)
AdditionalInfoLimit == 500

\* The trim() sanitizer and String.prototype.trim
trim(s) ==
    Let({i \in 1..Len(s) : ~IsWs(Char(s, i))},
        LAMBDA keep : IF keep = {} THEN "" ELSE SubSeq(s, Least(keep), Greatest(keep)))

\* body(field).optional().trim(): an absent field is left alone.
Sanitized(x) == IF x.t = "str" THEN Str(trim(x.v)) ELSE x

\* validationResult(req).isEmpty() is false: additionalInfo is too long.
ValidationErrors(body) ==
    body[2].t = "str" /\ Len(body[2].v) > AdditionalInfoLimit

\* req.files && req.files.length > 0
hasImages(files) == files.t = "arr" /\ Len(files.v) > 0

\* req.body.modelNumber && req.body.modelNumber.trim().length > 0
hasModelNumber(body) == Truthy(body[1]) /\ Len(trim(body[1].v)) > 0

\* The handler answering without the check of line 31.
MissingInput_Unchecked(files, body) == FALSE

\* !hasImages && !hasModelNumber
MissingInput(files, body) == ~hasImages(files) /\ ~hasModelNumber(body)

\* A parameter default of null is taken for an undefined argument.
DefaultNull(x) == IF x.t = "undef" THEN Null ELSE x

\* What the requests can carry: req.files after the upload middleware, and
\* the two optional body fields as sent.
UploadedFiles ==
    {Undef} \cup {Arr([i \in 1..n |-> Str(IF i % 2 = 1 THEN "https://img/1.jpg"
                                             ELSE "https://img/2.jpg")]) : n \in 0..MaxImages}
BodyModelNumbers == {Undef, Str("   "), Str(" WH-1000XM4 ")}
BodyAdditionalInfos == {Undef, Str("boxed"), Str(Rep("i", AdditionalInfoLimit + 1))}

\* res.status(status).json({success, message, ...})
Response(h, status, success, message, data) ==
    [h EXCEPT !.state = "sent", !.status = status, !.success = success,
              !.message = message, !.data = data]

\* The error-handling middleware behind asyncHandler: the status of the
\* error when it has one, else 500, with the message of the error.
errorHandler(h, err) ==
    Response(h, IF err.statusCode \in 400..599 THEN err.statusCode ELSE 500,
             FALSE, err.message, <<>>)

\* The middleware of the route: the upload and the sanitizers have run.
receiveAnalyzeProduct(c, files, modelNumber, additionalInfo) ==
    /\ http[c].state = "none"
    /\ pc[c] = "idle"
    /\ http' = [http EXCEPT ![c] =
                    [@ EXCEPT !.state = "received", !.files = files,
                              !.raw = <<modelNumber, additionalInfo>>,
                              !.body = <<Sanitized(modelNumber), Sanitized(additionalInfo)>>]]
    /\ UNCHANGED <<configVars, clock, callVars, parseVars, directVars, appVars>>

\* The handler up to its await: it answers 400, or calls the service.
analyzeProductHandler(c) ==
    /\ http[c].state = "received"
    /\ pc[c] = "idle"
    /\ IF ValidationErrors(http[c].body)
       THEN /\ http' = [http EXCEPT ![c] = Response(@, 400, FALSE, "validation errors", <<>>)]
            /\ UNCHANGED <<configVars, clock, callVars, parseVars, directVars, appVars>>
       ELSE IF MissingInput(http[c].files, http[c].body)
       THEN /\ http' = [http EXCEPT ![c] =
                            Response(@, 400, FALSE, "Either images or model number is required", <<>>)]
            /\ UNCHANGED <<configVars, clock, callVars, parseVars, directVars, appVars>>
       ELSE analyzeProductImages(c,
                IF hasImages(http[c].files) THEN http[c].files ELSE Arr(<<>>),
                DefaultNull(http[c].body[1]), DefaultNull(http[c].body[2]))

\* The handler after its await: the listing data are sent, or the error the
\* service threw goes to the error handler.
respondAnalyzeProduct(c) ==
    /\ http[c].state = "received"
    /\ pc[c] = "done"
    /\ http' = [http EXCEPT ![c] =
                    IF outcome[c].threw THEN errorHandler(@, outcome[c].v)
                    ELSE Response(@, 200, TRUE, "",
                            <<outcome[c].v.title,
                              Or(outcome[c].v.condition, Str("good")),
                              IF request[c].images.v # <<>> THEN request[c].images.v[1]
                              ELSE Str("")>>)]
    /\ UNCHANGED <<configVars, clock, callVars, parseVars, directVars, appVars>>

NextRoute ==
    \/ \E c \in Callers, files \in UploadedFiles, modelNumber \in BodyModelNumbers,
          additionalInfo \in BodyAdditionalInfos :
            receiveAnalyzeProduct(c, files, modelNumber, additionalInfo)
    \/ \E c \in Callers : analyzeProductHandler(c)
    \/ \E c \in Callers, i \in 1..MaxImages, response \in FetchResponses :
            FetchSettles(c, i, response)
    \/ \E c \in Callers, r \in GeminiReplySet : GeminiReplies(c, r)
    \/ \E c \in Callers, r \in OpenAIReplySet : OpenAIReplies(c, r)
    \/ \E c \in Callers : respondAnalyzeProduct(c)
    \/ Tick

SpecRoute == Init /\ [][NextRoute]_vars

(***************************************************************************)
(* Two callers at once                                                     *)
(***************************************************************************)
ConcurrentImageLists == {Arr(<<>>), Arr(<<Str("https://img/1.jpg")>>)}
ConcurrentModelNumbers == {Null, Str("WH-1000XM4")}
ConcurrentReplies ==
    { RejectReply,
      TextReply(Str("{\"seoTitle\": \"Sony WH-1000XM4\", \"condition\": \"mint\", \"confidence\": 0.9}")),
      TextReply(Str("I cannot help with that.")) }

NextConcurrent ==
    \/ \E c \in Calls, images \in ConcurrentImageLists, modelNumber \in ConcurrentModelNumbers :
            analyzeProductImages(c, images, modelNumber, Null)
    \/ \E c \in Calls, i \in 1..MaxImages, response \in FetchResponses :
            FetchSettles(c, i, response)
    \/ \E c \in Calls, r \in ConcurrentReplies : GeminiReplies(c, r)
    \/ \E c \in Calls, r \in ConcurrentReplies : OpenAIReplies(c, r)
    \/ Tick

SpecConcurrent == Init /\ [][NextConcurrent]_vars

(***************************************************************************)
(* validateCondition, generateTitle and buildPrompt called on their own    *)
(***************************************************************************)
MaxCalls == 3

ConditionInputs ==
    { Undef, Null, Str(""), Str("Brand New, sealed"), Str("BRAND NEW"),
      Str("brand new"), Str("kinda broken"), Str("mint condition"),
      Str("Slightly Damaged!"), Str("weird"), Str("Used"), Str("acceptable"),
      Str("Like-New"), Str("very good"), Str("good") }

TitleBrands == {Undef, Str(""), Str("Sony"), Str(Rep("B", GeneratedTitleLimit - 1))}
TitleModels == {Null, Str("WH-1000XM4"), Str("X")}
TitleCategories == {Str("Electronics"), Str("Fashion"), Str("Other")}
TitleDetails ==
    { Undef, Null, EmptyObject,
      Obj([color |-> Str("Black")]),
      Obj([storage |-> Str("128GB"), color |-> Str("Black")]),
      Obj([size |-> Str("M"), color |-> Str("")]),
      Obj([storage |-> Str("256GB"), size |-> Str("L")]) }

\* The first call takes any arguments; the calls after it take these.
LaterArguments ==
    { <<Str("WH-1000XM4"), Null>>,
      <<Str("mint condition")>>,
      <<Str("Sony"), Str("WH-1000XM4"), Str("Electronics"), Obj([color |-> Str("Black")])>> }

InitDirect == Init /\ preferredProvider = "gemini" /\ geminiModel /\ openai

\* A further call may be made with these arguments.
MayCall(args) == Len(history) < MaxCalls /\ (history = <<>> \/ args \in LaterArguments)

\* The history after a call: the method, its arguments, the time, the result.
Recorded(method, args, out) ==
    Append(history, [method |-> method, args |-> args, at |-> clock, out |-> out])

validateConditionCall(condition) ==
    /\ MayCall(<<condition>>)
    /\ history' = Recorded("validateCondition", <<condition>>, validateCondition(condition))
    /\ UNCHANGED <<configVars, clock, callVars, parseVars, routeVars, appVars>>

generateTitleCall(brand, model, category, additionalDetails) ==
    /\ MayCall(<<brand, model, category, additionalDetails>>)
    /\ history' = Recorded("generateTitle", <<brand, model, category, additionalDetails>>,
                           generateTitle(brand, model, category, additionalDetails))
    /\ UNCHANGED <<configVars, clock, callVars, parseVars, routeVars, appVars>>

buildPromptCall(modelNumber, additionalInfo) ==
    /\ MayCall(<<modelNumber, additionalInfo>>)
    /\ history' = Recorded("buildPrompt", <<modelNumber, additionalInfo>>,
                           Returned(Str(buildPrompt(modelNumber, additionalInfo))))
    /\ UNCHANGED <<configVars, clock, callVars, parseVars, routeVars, appVars>>

NextDirect ==
    \/ \E condition \in ConditionInputs : validateConditionCall(condition)
    \/ \E brand \in TitleBrands, model \in TitleModels, category \in TitleCategories,
          additionalDetails \in TitleDetails :
            generateTitleCall(brand, model, category, additionalDetails)
    \/ \E modelNumber \in ModelNumbers, additionalInfo \in AdditionalInfos :
            buildPromptCall(modelNumber, additionalInfo)
    \/ Tick

SpecDirect == InitDirect /\ [][NextDirect]_vars

(***************************************************************************)
(* The User model and the Clerk directory                                  *)
(***************************************************************************)
serviceVars == <<configVars, clock, callVars, parseVars, directVars, routeVars>>

\* What clerkClient.users.getUser answers for the users that hold tokens.
getUser(clerkUserId) ==
    IF clerkUserId = "user_a"
    THEN [id |-> "user_a", firstName |-> "Ann", lastName |-> "Lee", username |-> "ann",
          emailAddresses |-> <<"Ann@Example.com">>, imageUrl |-> "https://img/ann.png",
          externalAccounts |-> <<"oauth_google">>]
    ELSE [id |-> clerkUserId, firstName |-> "", lastName |-> "", username |-> "bob",
          emailAddresses |-> <<"bob@example.com">>, imageUrl |-> "https://img/bob.png",
          externalAccounts |-> <<"oauth_apple">>]

\* User.findByClerkId: the _id of the user with the clerkId, 0 for null.
findByClerkId(us, clerkId) ==
    IF \E i \in 1..Len(us) : us[i].clerkId = clerkId
    THEN CHOOSE i \in 1..Len(us) : us[i].clerkId = clerkId
    ELSE 0

\* User.createFromClerk up to the create: the document it builds ("" for
\* an undefined email).
createFromClerk(clerkUser, now) ==
    [clerkId |-> clerkUser.id,
     name |-> Let(trim(clerkUser.firstName \o " " \o clerkUser.lastName), LAMBDA full :
                  IF full # "" THEN full
                  ELSE IF clerkUser.username # "" THEN clerkUser.username ELSE "User"),
     email |-> IF Len(clerkUser.emailAddresses) > 0 THEN clerkUser.emailAddresses[1] ELSE "",
     auth_provider |-> IF Len(clerkUser.externalAccounts) > 0
                          /\ clerkUser.externalAccounts[1] = "oauth_apple"
                       THEN "apple" ELSE "google",
     avatar_url |-> clerkUser.imageUrl,
     created_at |-> now]

\* User.create: the schema's required fields and setters, then the insert
\* under the unique indexes on clerkId and email.
UserCreate(us, data) ==
    Let([data EXCEPT !.email = toLowerCase(trim(data.email)), !.name = trim(data.name)], LAMBDA doc :
        IF doc.email = "" \/ doc.name = "" \/ doc.clerkId = ""
        THEN [threw |-> TRUE, error |-> ForeignError("ValidationError", "User validation failed"),
              users |-> us]
        ELSE IF \E i \in 1..Len(us) : us[i].clerkId = doc.clerkId \/ us[i].email = doc.email
        THEN [threw |-> TRUE,
              error |-> ForeignError("MongoServerError", "E11000 duplicate key error collection"),
              users |-> us]
        ELSE [threw |-> FALSE, error |-> NoError, users |-> Append(us, doc)])

(***************************************************************************)
(* authenticate                                                            *)
(***************************************************************************)
\* res.status(status).json({ success, message }) and the end of the request.
Respond(q, status, message) ==
    [q EXCEPT !.pc = "done", !.status = status, !.message = message]

\* verifyToken of @clerk/backend: the payload of a token that verifies,
\* an error for one that does not.
verifyToken(token) ==
    CASE token.kind = "valid" -> Returned([sub |-> token.sub])
      [] token.kind = "nosub" -> Returned([sub |-> ""])
      [] token.kind = "expired" ->
            Thrown(ForeignError("TokenVerificationError", "JWT is expired"))
      [] OTHER -> Thrown(ForeignError("TokenVerificationError", "Invalid JWT form"))

\* The catch block of authenticate.
authenticateCatch(q, error) ==
    Respond(q, 401, IF includes(error.message, "expired")
                    THEN "Session expired. Please login again."
                    ELSE "Authentication failed")

\* A middleware that lets a request without token through (optionalAuth).
authenticate_Optional(q, us) ==
    IF q.token.kind = "none"
    THEN [q EXCEPT !.pc = "handler", !.next = TRUE]
    ELSE [Respond(q, 401, "Authentication failed") EXCEPT !.verified = TRUE]

\* authenticate up to the lookup of the user: the request answered 401,
\* passed on with the user attached, or about to create the user.
authenticate(q, us) ==
    IF q.token.kind = "none"
    THEN Respond(q, 401, "No authorization token provided")
    ELSE Let(verifyToken(q.token), LAMBDA payload :
         IF payload.threw
         THEN [authenticateCatch(q, payload.v) EXCEPT !.verified = TRUE]
         ELSE IF payload.v.sub = ""
         THEN [Respond(q, 401, "Invalid or expired session") EXCEPT !.verified = TRUE]
         ELSE Let(findByClerkId(us, payload.v.sub), LAMBDA user :
              IF user = 0
              THEN [q EXCEPT !.pc = "create", !.verified = TRUE, !.dbAccess = TRUE]
              ELSE [q EXCEPT !.pc = "handler", !.user = user, !.next = TRUE,
                             !.verified = TRUE, !.dbAccess = TRUE]))

\* The routes mounted behind authenticate.
ProtectedRoutes ==
    {"PUT /listings/:id", "PATCH /listings/:id/status", "DELETE /listings/:id",
     "POST /listings/:id/mark-sold", "GET /auth/me", "PATCH /auth/me", "DELETE /auth/me"}

WebhookRoute == "POST /webhooks/clerk"

\* express routes a request to a free slot.
receive(r, q) ==
    /\ req[r].pc \in {"idle", "done"}
    /\ req' = [req EXCEPT ![r] =
                  [q EXCEPT !.pc = IF q.route \in ProtectedRoutes THEN "auth"
                                   ELSE IF q.route = WebhookRoute THEN "webhook"
                                   ELSE "handler"]]
    /\ UNCHANGED <<serviceVars, users, listings, webhookSecret>>

authenticateLookup(r) ==
    /\ req[r].pc = "auth"
    /\ req' = [req EXCEPT ![r] = authenticate(req[r], users)]
    /\ UNCHANGED <<serviceVars, users, listings, webhookSecret>>

\* user = await User.createFromClerk(await clerkClient.users.getUser(sub)),
\* then next(), or the catch block when the create throws.
authenticateCreate(r) ==
    /\ req[r].pc = "create"
    /\ LET made == UserCreate(users, createFromClerk(getUser(req[r].token.sub), clock))
       IN  IF made.threw
           THEN /\ req' = [req EXCEPT ![r] = authenticateCatch(req[r], made.error)]
                /\ users' = users
           ELSE /\ req' = [req EXCEPT ![r].pc = "handler", ![r].user = Len(made.users),
                                      ![r].next = TRUE]
                /\ users' = made.users
    /\ UNCHANGED <<serviceVars, listings, webhookSecret>>

\* GET /auth/me
getMe(r) ==
    /\ req[r].pc = "handler" /\ req[r].route = "GET /auth/me"
    /\ req' = [req EXCEPT ![r] = Respond(req[r], 200, "")]
    /\ UNCHANGED <<serviceVars, users, listings, webhookSecret>>

(***************************************************************************)
(* handleClerkWebhook and its event handlers                               *)
(***************************************************************************)
SvixHeaders == {"svix-id", "svix-timestamp", "svix-signature"}

\* A handler that trusts the payload once the headers are there.
verifyWebhook_Unverified(q, secret) ==
    IF ~secret THEN Respond(q, 500, "Webhook processing failed")
    ELSE IF ~(SvixHeaders \subseteq q.svix) THEN Respond(q, 400, "Missing svix headers")
    ELSE [q EXCEPT !.pc = q.body.type]

\* handleClerkWebhook up to the switch: the delivery answered, or handed
\* to the handler of its event type.
verifyWebhook(q, secret) ==
    IF ~secret THEN Respond(q, 500, "Webhook processing failed")
    ELSE IF ~(SvixHeaders \subseteq q.svix) THEN Respond(q, 400, "Missing svix headers")
    ELSE IF ~q.signed THEN Respond(q, 400, "Invalid webhook signature")
    ELSE IF q.body.type \in {"user.created", "user.updated", "user.deleted"}
    THEN [q EXCEPT !.pc = q.body.type]
    ELSE Respond(q, 200, "Webhook processed successfully")

handleClerkWebhook(r) ==
    /\ req[r].pc = "webhook"
    /\ req' = [req EXCEPT ![r] = verifyWebhook(req[r], webhookSecret)]
    /\ UNCHANGED <<serviceVars, users, listings, webhookSecret>>

\* The document handleUserCreated builds from the event's data.
WebhookUserData(clerkUser, now) ==
    [clerkId |-> clerkUser.id,
     name |-> Let(trim(clerkUser.first_name \o " " \o clerkUser.last_name), LAMBDA full :
                  IF full # "" THEN full
                  ELSE IF clerkUser.username # "" THEN clerkUser.username ELSE "User"),
     email |-> IF Len(clerkUser.email_addresses) > 0 /\ clerkUser.email_addresses[1] # ""
               THEN clerkUser.email_addresses[1]
               ELSE IF clerkUser.primary_email_address_id # ""
               THEN clerkUser.primary_email_address_id
               ELSE clerkUser.id \o "@clerk.local",
     auth_provider |-> IF clerkUser.provider = "oauth_apple" THEN "apple" ELSE "google",
     avatar_url |-> clerkUser.image_url,
     created_at |-> now]

\* handleUserCreated decides, after its lookup, that there is nothing to create.
SkipsUserCreation(us, clerkUser) ==
    \/ Len(clerkUser.id) >= 10 /\ SubSeq(clerkUser.id, 1, 10) = "user_test_"
    \/ Len(clerkUser.email_addresses) = 0
    \/ findByClerkId(us, clerkUser.id) # 0
    \/ includes(WebhookUserData(clerkUser, 0).email, "@clerk.local")

\* handleUserCreated up to its User.create.
handleUserCreated(r) ==
    /\ req[r].pc = "user.created"
    /\ req' = [req EXCEPT ![r] =
                  IF SkipsUserCreation(users, req[r].body.data)
                  THEN Respond(req[r], 200, "Webhook processed successfully")
                  ELSE [req[r] EXCEPT !.pc = "user.creating"]]
    /\ UNCHANGED <<serviceVars, users, listings, webhookSecret>>

\* await User.create(userData): an error of the create is logged only.
handleUserCreatedCreate(r) ==
    /\ req[r].pc = "user.creating"
    /\ users' = UserCreate(users, WebhookUserData(req[r].body.data, clock)).users
    /\ req' = [req EXCEPT ![r] = Respond(req[r], 200, "Webhook processed successfully")]
    /\ UNCHANGED <<serviceVars, listings, webhookSecret>>

\* The user after handleUserUpdated has assigned name, email and avatar_url.
UpdatedFromClerk(user, clerkUser) ==
    [user EXCEPT
        !.name = Let(trim(clerkUser.first_name \o " " \o clerkUser.last_name), LAMBDA full :
                     IF full # "" THEN full
                     ELSE IF clerkUser.username # "" THEN clerkUser.username ELSE user.name),
        !.email = IF Len(clerkUser.email_addresses) > 0 /\ clerkUser.email_addresses[1] # ""
                     /\ ~includes(clerkUser.email_addresses[1], "@clerk.local")
                  THEN toLowerCase(trim(clerkUser.email_addresses[1])) ELSE user.email,
        !.avatar_url = IF clerkUser.image_url # "" THEN clerkUser.image_url ELSE user.avatar_url]

\* handleUserUpdated: an unknown user is handed to handleUserCreated; a
\* known one is saved unless the new email is another user's.
handleUserUpdated(r) ==
    /\ req[r].pc = "user.updated"
    /\ LET id == findByClerkId(users, req[r].body.data.id)
           saved == UpdatedFromClerk(users[id], req[r].body.data)
       IN  IF id = 0
           THEN /\ req' = [req EXCEPT ![r].pc = "user.created"]
                /\ users' = users
           ELSE /\ req' = [req EXCEPT ![r] = Respond(req[r], 200, "Webhook processed successfully")]
                /\ users' = IF \E i \in 1..Len(users) : i # id /\ users[i].email = saved.email
                            THEN users
                            ELSE [users EXCEPT ![id] = saved]
    /\ UNCHANGED <<serviceVars, listings, webhookSecret>>

\* Listing.updateMany({ user_id }, { status: 'deleted' })
DeleteAllOf(ls, user) ==
    [i \in 1..Len(ls) |-> IF ls[i].user_id = user THEN [ls[i] EXCEPT !.status = "deleted"] ELSE ls[i]]

handleUserDeleted(r) ==
    /\ req[r].pc = "user.deleted"
    /\ listings' = LET id == findByClerkId(users, req[r].body.data.id)
                   IN  IF id = 0 THEN listings ELSE DeleteAllOf(listings, id)
    /\ req' = [req EXCEPT ![r] = Respond(req[r], 200, "Webhook processed successfully")]
    /\ UNCHANGED <<serviceVars, users, webhookSecret>>

(***************************************************************************)
(* The Listing model, the listing controller and the profile routes       *)
(***************************************************************************)
ListingStatuses == {"active", "sold", "deleted", "draft"}
PatchStatuses == {"active", "sold", "draft"}
allowedProfileUpdates == {"name", "avatar_url"}

\* An update that assigns every field the request supplies.
allowedUpdates_Any ==
    {"title", "model_number", "photo_url", "description", "additional_photos", "status",
     "user_id", "created_at"}

allowedUpdates ==
    {"title", "model_number", "photo_url", "description", "additional_photos", "status"}

\* isURL of express-validator, for the URLs of this model.
isURL(s) == Len(s) > 8 /\ SubSeq(s, 1, 8) = "https://"

Supplied(body, f) == f \in DOMAIN body
Falsy(body, f) == ~Supplied(body, f) \/ body[f] = ""

\* The sanitizers of validateListing: title, description and model_number trimmed.
sanitizeListing(body) ==
    [f \in DOMAIN body |->
        IF f \in {"title", "description", "model_number", "additional_details"}
        THEN trim(body[f]) ELSE body[f]]

\* validationResult(req) is not empty after validateListing.
validateListing(body) ==
    \/ Falsy(body, "title") \/ trim(body.title) = "" \/ Len(trim(body.title)) > 200
    \/ Falsy(body, "description") \/ trim(body.description) = ""
    \/ ~Falsy(body, "photo_url") /\ ~isURL(body.photo_url)
    \/ Supplied(body, "model_number") /\ Len(trim(body.model_number)) > 100
    \/ Supplied(body, "additional_photos")
          /\ \E i \in 1..Len(body.additional_photos) : ~isURL(body.additional_photos[i])
    \/ Falsy(body, "photo_url") /\ Falsy(body, "model_number")

\* Listing.findById: the _id when there is such a document, 0 for null.
findById(ls, id) == IF id \in 1..Len(ls) THEN id ELSE 0

\* { ...listing.ai_metadata, ...req.body.ai_metadata }
Merge(a, b) == [k \in DOMAIN a \cup DOMAIN b |-> IF k \in DOMAIN b THEN b[k] ELSE a[k]]

\* The document after the assignments of listingController.update.
Assigned(listing, body) ==
    [f \in DOMAIN listing |->
        IF f \in allowedUpdates /\ Supplied(body, f) THEN body[f]
        ELSE IF f = "ai_metadata" /\ Supplied(body, f) THEN Merge(listing[f], body[f])
        ELSE listing[f]]

\* An error thrown by a handler, answered by the error middleware.
Throw(q, err) ==
    Let(errorHandler(NoResponse, err), LAMBDA h :
        Respond(q, h.status, h.message))

\* An update that does not look at the owner.
updateListing_Unowned(q, ls, errors, body) ==
    IF errors THEN [q |-> Respond(q, 400, ""), listings |-> ls]
    ELSE IF findById(ls, q.id) = 0
    THEN [q |-> Throw(q, AppError("Listing not found", 404)), listings |-> ls]
    ELSE [q |-> Respond(q, 200, ""), listings |-> [ls EXCEPT ![q.id] = Assigned(ls[q.id], body)]]

\* listingController.update with the validation result errors and the
\* body it reads: the response and the collection after it.
updateListing(q, ls, errors, body) ==
    IF errors THEN [q |-> Respond(q, 400, ""), listings |-> ls]
    ELSE IF findById(ls, q.id) = 0
    THEN [q |-> Throw(q, AppError("Listing not found", 404)), listings |-> ls]
    ELSE IF ls[q.id].user_id # q.user
    THEN [q |-> Throw(q, AppError("Not authorized to update this listing", 403)), listings |-> ls]
    ELSE Let(Assigned(ls[q.id], body), LAMBDA saved :
         IF saved.status \notin ListingStatuses
         THEN [q |-> Throw(q, ForeignError("ValidationError", "Listing validation failed")), listings |-> ls]
         ELSE [q |-> [Respond(q, 200, "") EXCEPT !.listings = <<saved>>],
               listings |-> [ls EXCEPT ![q.id] = saved]])

\* PUT /listings/:id
update(r) ==
    /\ req[r].pc = "handler" /\ req[r].route = "PUT /listings/:id"
    /\ LET done == updateListing(req[r], listings, validateListing(req[r].body),
                                 sanitizeListing(req[r].body))
       IN  req' = [req EXCEPT ![r] = done.q] /\ listings' = done.listings
    /\ UNCHANGED <<serviceVars, users, webhookSecret>>

\* PATCH /listings/:id/status: req.body = { status: req.body.status }
patchStatus(r) ==
    /\ req[r].pc = "handler" /\ req[r].route = "PATCH /listings/:id/status"
    /\ LET errors == Falsy(req[r].body, "status") \/ req[r].body.status \notin PatchStatuses
           done == updateListing(req[r], listings, errors, [status |-> req[r].body.status])
       IN  req' = [req EXCEPT ![r] = done.q] /\ listings' = done.listings
    /\ UNCHANGED <<serviceVars, users, webhookSecret>>

\* listingController.delete and markSold: the owner's listing gets the status.
setStatus(q, ls, status, denied, message) ==
    IF findById(ls, q.id) = 0
    THEN [q |-> Throw(q, AppError("Listing not found", 404)), listings |-> ls]
    ELSE IF ls[q.id].user_id # q.user
    THEN [q |-> Throw(q, AppError(denied, 403)), listings |-> ls]
    ELSE [q |-> Respond(q, 200, message), listings |-> [ls EXCEPT ![q.id].status = status]]

delete(r) ==
    /\ req[r].pc = "handler" /\ req[r].route = "DELETE /listings/:id"
    /\ LET done == setStatus(req[r], listings, "deleted",
                             "Not authorized to delete this listing",
                             "Listing deleted successfully")
       IN  req' = [req EXCEPT ![r] = done.q] /\ listings' = done.listings
    /\ UNCHANGED <<serviceVars, users, webhookSecret>>

markSold(r) ==
    /\ req[r].pc = "handler" /\ req[r].route = "POST /listings/:id/mark-sold"
    /\ LET done == setStatus(req[r], listings, "sold",
                             "Not authorized to update this listing",
                             "Listing marked as sold")
       IN  req' = [req EXCEPT ![r] = done.q] /\ listings' = done.listings
    /\ UNCHANGED <<serviceVars, users, webhookSecret>>

\* Listing.findActive(): the documents in _id order (the documents of this
\* model share one created_at, which leaves the sort their order).
findActive(ls) == LET Active(l) == l.status = "active" IN SelectSeq(ls, Active)

\* Listing.search(q): the active documents whose text holds the query.
search(ls, q) ==
    LET Hit(l) == /\ l.status = "active"
                  /\ q = "" \/ includes(toLowerCase(l.title \o " " \o l.description), toLowerCase(q))
    IN  SelectSeq(ls, Hit)

\* Listing.findByUser(userId, includeInactive)
findByUser(ls, userId, includeInactive) ==
    LET Mine(l) == l.user_id = userId /\ (includeInactive \/ l.status = "active")
    IN  SelectSeq(ls, Mine)

\* The public GET routes of the listing router.
PublicRoutes ==
    {"GET /listings/search", "GET /listings", "GET /listings/:id", "GET /listings/user/:userId"}

\* The response of a public route.
publicListings(q, ls) ==
    CASE q.route = "GET /listings/search" ->
            [Respond(q, 200, "") EXCEPT
                !.listings = search(ls, IF Supplied(q.query, "q") THEN trim(q.query.q) ELSE "")]
      [] q.route = "GET /listings" ->
            [Respond(q, 200, "") EXCEPT !.listings = findActive(ls)]
      [] q.route = "GET /listings/:id" ->
            IF findById(ls, q.id) = 0 \/ ls[q.id].status = "deleted"
            THEN Throw(q, AppError("Listing not found", 404))
            ELSE [Respond(q, 200, "") EXCEPT !.listings = <<ls[q.id]>>]
      [] OTHER ->
            [Respond(q, 200, "") EXCEPT
                !.listings = findByUser(ls, q.id, Supplied(q.query, "includeInactive")
                                                     /\ q.query.includeInactive = "true")]

\* listingController.search, getAll, getById and getByUser
getListings(r) ==
    /\ req[r].pc = "handler" /\ req[r].route \in PublicRoutes
    /\ req' = [req EXCEPT ![r] = publicListings(req[r], listings)]
    /\ UNCHANGED <<serviceVars, users, listings, webhookSecret>>

\* The updates object of PATCH /auth/me, applied by findByIdAndUpdate.
ProfileUpdated(user, body) ==
    [f \in DOMAIN user |->
        IF f \in allowedProfileUpdates /\ Supplied(body, f)
        THEN (IF f = "name" THEN trim(body[f]) ELSE body[f])
        ELSE user[f]]

\* PATCH /auth/me (runValidators: a name that is empty is refused)
patchMe(r) ==
    /\ req[r].pc = "handler" /\ req[r].route = "PATCH /auth/me"
    /\ req[r].user \in 1..Len(users)
    /\ LET saved == ProfileUpdated(users[req[r].user], req[r].body)
       IN  IF saved.name = "" \/ Len(saved.name) > 100
           THEN /\ req' = [req EXCEPT ![r] = Throw(req[r], ForeignError("ValidationError", "Validation failed"))]
                /\ users' = users
           ELSE /\ req' = [req EXCEPT ![r] = Respond(req[r], 200, "")]
                /\ users' = [users EXCEPT ![req[r].user] = saved]
    /\ UNCHANGED <<serviceVars, listings, webhookSecret>>

\* DELETE /auth/me
deleteMe(r) ==
    /\ req[r].pc = "handler" /\ req[r].route = "DELETE /auth/me"
    /\ listings' = DeleteAllOf(listings, req[r].user)
    /\ req' = [req EXCEPT ![r] = Respond(req[r], 200,
                  "Account deletion initiated. Your data will be removed shortly.")]
    /\ UNCHANGED <<serviceVars, users, webhookSecret>>

(***************************************************************************)
(* The listing endpoints served one request at a time                      *)
(***************************************************************************)
\* The service is idle while the endpoints below are exercised.
ServiceIdle ==
    /\ preferredProvider = "gemini" /\ geminiModel = TRUE /\ openai = TRUE
    /\ clock = 0
    /\ pc = [c \in Calls |-> "idle"]
    /\ request = [c \in Calls |-> [images |-> Null, modelNumber |-> Null,
                                   additionalInfo |-> Null]]
    /\ fetches = [c \in Calls |-> idleFetches]
    /\ sent = [c \in Calls |-> <<>>]
    /\ reply = [c \in Calls |-> NoReply]
    /\ caught = [c \in Calls |-> NoError]
    /\ outcome = [c \in Calls |-> NotCalled]
    /\ rawText = Str("") /\ providerId = "gemini" /\ parsePc = "unused" /\ parseOut = NotCalled
    /\ history = <<>>
    /\ http = [c \in Calls |-> NoResponse]

\* The two users of the listing endpoints, as authenticate created them.
SeedUsers ==
    UserCreate(UserCreate(<<>>, createFromClerk(getUser("user_a"), 0)).users,
               createFromClerk(getUser("user_b"), 0)).users

\* A listing as listingController.create stored it.
SeedListing(owner, status) ==
    [user_id |-> owner, title |-> "Sony WH-1000XM4", model_number |-> "WH-1000XM4",
     photo_url |-> "https://img/1.jpg", description |-> "Barely used",
     additional_photos |-> <<>>, ai_metadata |-> [generated |-> FALSE],
     status |-> status, created_at |-> 0]

SeedListings ==
    {<<SeedListing(1, "active")>>, <<SeedListing(1, "draft")>>,
     <<SeedListing(1, "active"), SeedListing(2, "sold")>>}

TokenOf(sub) == [kind |-> "valid", sub |-> sub]
BadTokens == {NoToken, [kind |-> "invalid", sub |-> ""], [kind |-> "expired", sub |-> "user_a"],
              [kind |-> "nosub", sub |-> ""]}

Request(route, token, id, query, body) ==
    [IdleRequest EXCEPT !.route = route, !.token = token, !.id = id, !.query = query,
                        !.body = body]

FullBody ==
    [title |-> "  Bose QC45  ", description |-> "Like new", model_number |-> "QC45",
     photo_url |-> "https://img/2.jpg", additional_photos |-> <<"https://img/3.jpg">>,
     status |-> "active", ai_metadata |-> [category |-> "Audio"], user_id |-> 2,
     created_at |-> 7]
TextBody ==
    [title |-> "Sony WH-1000XM4 boxed", description |-> "Barely used",
     model_number |-> "WH-1000XM4"]
UpdateBodies ==
    {FullBody, TextBody, [title |-> "   ", description |-> "x", model_number |-> "m"],
     [status |-> "sold"]}
StatusBodies ==
    {[status |-> s] : s \in ListingStatuses} \cup {[status |-> "draft", title |-> "Hijacked"]}
ProfileBodies ==
    {[name |-> "  Ann L.  "],
     [avatar_url |-> "https://img/new.png", email |-> "eve@example.com", clerkId |-> "user_b"]}

\* The listing ids of the requests: the first listing and one that no listing has.
UpdateIds == {1, 3}
ListingIds == {1, 2, 3}

ListingRequests ==
    {Request("GET /listings/search", NoToken, 0, qy, NoBody) : qy \in {NoBody, [q |-> " sony "]}}
    \cup {Request("GET /listings", NoToken, 0, NoBody, NoBody)}
    \cup {Request("GET /listings/:id", NoToken, id, NoBody, NoBody) : id \in ListingIds}
    \cup {Request("GET /listings/user/:userId", NoToken, 1, qy, NoBody) :
             qy \in {NoBody, [includeInactive |-> "true"], [includeInactive |-> "false"]}}
    \cup {Request("PUT /listings/:id", TokenOf(u), id, NoBody, b) :
             u \in {"user_a", "user_b"}, id \in UpdateIds, b \in UpdateBodies}
    \cup {Request("PATCH /listings/:id/status", TokenOf(u), id, NoBody, b) :
             u \in {"user_a", "user_b"}, id \in UpdateIds, b \in StatusBodies}
    \cup {Request(route, TokenOf(u), id, NoBody, NoBody) :
             route \in {"DELETE /listings/:id", "POST /listings/:id/mark-sold"},
             u \in {"user_a", "user_b"}, id \in ListingIds}
    \cup {Request("PATCH /auth/me", TokenOf("user_a"), 0, NoBody, b) : b \in ProfileBodies}
    \cup {Request("DELETE /auth/me", TokenOf("user_a"), 0, NoBody, NoBody)}
    \cup {Request(route, t, 1, NoBody, [status |-> "sold"]) :
             route \in {"PATCH /listings/:id/status", "DELETE /auth/me"}, t \in BadTokens}

InitListings ==
    /\ ServiceIdle
    /\ users = SeedUsers
    /\ listings \in SeedListings
    /\ req = [r \in Slots |-> IdleRequest]
    /\ webhookSecret = TRUE

NextListings ==
    \/ \E q \in ListingRequests : receive("r1", q)
    \/ authenticateLookup("r1")
    \/ getListings("r1")
    \/ update("r1")
    \/ patchStatus("r1")
    \/ delete("r1")
    \/ markSold("r1")
    \/ patchMe("r1")
    \/ deleteMe("r1")

SpecListings == InitListings /\ [][NextListings]_vars

(***************************************************************************)
(* First requests and webhook deliveries of one Clerk user, interleaved    *)
(***************************************************************************)
\* The data of a user event (snake case, as Clerk sends it).
ClerkEventUser(id, firstName, emails) ==
    [id |-> id, first_name |-> firstName, last_name |-> "Lee", username |-> "ann",
     email_addresses |-> emails, primary_email_address_id |-> "",
     image_url |-> "https://img/ann.png", provider |-> "oauth_google"]

Delivery(svix, signed, type, data) ==
    [IdleRequest EXCEPT !.route = WebhookRoute, !.svix = svix, !.signed = signed,
                        !.body = [type |-> type, data |-> data]]

AnnEvent == ClerkEventUser("user_a", "Ann", <<"ann@example.com">>)

Deliveries ==
    {Delivery(SvixHeaders, TRUE, type, AnnEvent) :
        type \in {"user.created", "user.updated", "user.deleted", "session.created"}}
    \cup {Delivery(SvixHeaders, TRUE, "user.updated",
                   ClerkEventUser("user_a", "Anna", <<"ann@example.com">>)),
          Delivery(SvixHeaders, TRUE, "user.created",
                   ClerkEventUser("user_test_1", "Test", <<"test@example.com">>)),
          Delivery(SvixHeaders, TRUE, "user.created", ClerkEventUser("user_a", "Ann", <<>>)),
          Delivery(SvixHeaders, FALSE, "user.created", AnnEvent),
          Delivery(SvixHeaders, FALSE, "user.deleted", AnnEvent),
          Delivery(SvixHeaders \ {"svix-signature"}, TRUE, "user.created", AnnEvent),
          Delivery(SvixHeaders \ {"svix-id"}, TRUE, "user.deleted", AnnEvent),
          Delivery({}, FALSE, "user.updated", AnnEvent)}

AuthRequests ==
    {Request("GET /auth/me", t, 0, NoBody, NoBody) :
        t \in {TokenOf("user_a"), NoToken, [kind |-> "expired", sub |-> "user_a"]}}

ApiSlots == {"r1", "r2"}

\* The store is empty, or holds the user and a listing of theirs.
InitAuth ==
    /\ ServiceIdle
    /\ \/ users = <<>> /\ listings = <<>>
       \/ /\ users = UserCreate(<<>>, createFromClerk(getUser("user_a"), 0)).users
          /\ listings = <<SeedListing(1, "active")>>
    /\ req = [r \in Slots |-> IdleRequest]
    /\ webhookSecret \in BOOLEAN

NextAuth ==
    \/ \E r \in ApiSlots, q \in AuthRequests : receive(r, q)
    \/ \E q \in Deliveries : receive("w1", q)
    \/ \E r \in ApiSlots : authenticateLookup(r)
    \/ \E r \in ApiSlots : authenticateCreate(r)
    \/ \E r \in ApiSlots : getMe(r)
    \/ handleClerkWebhook("w1")
    \/ handleUserCreated("w1")
    \/ handleUserCreatedCreate("w1")
    \/ handleUserUpdated("w1")
    \/ handleUserDeleted("w1")

SpecAuth == InitAuth /\ [][NextAuth]_vars


(***************************************************************************)
(* Properties of the parser (checked under SpecParse)                      *)
(***************************************************************************)
CanonicalConditions ==
    {"new", "like-new", "excellent", "good", "fair", "poor", "for-parts"}

ParseReturned == parsePc = "done" /\ ~parseOut.threw

\* The degraded marker of a returned record: its error field is set.
parseFailed(record) == record.error.t # "undef"

\* The text has a brace-delimited part that JSON.parse decodes.
Decodes(text) == jsonMatch(text).found /\ JSONparse(jsonMatch(text).s).ok

Payload(text) == JSONparse(jsonMatch(text).s).v

TextWith(k, lit) == Str(Object(Vary(BaseFields, k, lit)))

\* C1: every record the parser returns, structured or degraded, whatever
\* the payload's condition field holds, has a condition that is one of the
\* seven canonical values.
C1_ConditionCanonical ==
    ParseReturned =>
        /\ parseOut.v.condition.t = "str"
        /\ parseOut.v.condition.v \in CanonicalConditions

C1_Witness ==
    /\ ParseReturned
    /\ rawText = TextWith("condition", Quote("kinda broken"))
    /\ ~parseFailed(parseOut.v)
    /\ parseOut.v.condition = Str("for-parts")

\* C2: for every string rawText and every providerId, parseAIResponse
\* returns a record and raises nothing to its caller.
C2_NeverRaises ==
    (parsePc = "done" /\ rawText.t = "str") => ~parseOut.threw

C2_Witness ==
    /\ parsePc = "done"
    /\ rawText = TextWith("seoTitle", "7")
    /\ ~parseOut.threw
    /\ parseFailed(parseOut.v)

\* C3: for a text with no brace-delimited part, or one that does not
\* decode, the returned record carries the degraded marker and a non-empty
\* title.
C3_DegradedWhenNoJson ==
    (parsePc = "done" /\ rawText.t = "str" /\ ~Decodes(rawText.v)) =>
        /\ ~parseOut.threw
        /\ parseFailed(parseOut.v)
        /\ parseOut.v.title.t = "str"
        /\ parseOut.v.title.v # ""

C3_Witness ==
    /\ ParseReturned
    /\ rawText = Str("{\"seoTitle\": \"Sony\",}")
    /\ parseFailed(parseOut.v)
    /\ parseOut.v.title = Str("Product for Sale")

\* C4: when the embedded JSON object decodes, a malformed field never
\* aborts the parse: the structured record is returned (no degraded marker).
C4_FieldLocalDefault ==
    (parsePc = "done" /\ rawText.t = "str" /\ Decodes(rawText.v)) =>
        /\ ~parseOut.threw
        /\ ~parseFailed(parseOut.v)

\* A field of the record equals the payload's field whenever the payload's
\* value has the type tag.
SameWhenTyped(tag, payloadValue, recordValue) ==
    payloadValue.t = tag => recordValue = payloadValue

\* C5: for a payload that decodes, each field of the structured record
\* equals the corresponding field of the decoded payload whenever the
\* payload supplies a well-typed value (falsy values included).
C5_FieldsEqualReference ==
    (ParseReturned /\ rawText.t = "str" /\ Decodes(rawText.v)
        /\ ~parseFailed(parseOut.v)) =>
        LET p == Payload(rawText.v)
            out == parseOut.v
        IN  /\ SameWhenTyped("str", Get(p, "seoTitle"), out.title)
            /\ SameWhenTyped("str", Get(p, "productDescription"), out.description)
            /\ SameWhenTyped("str", Get(p, "conditionNotes"), out.conditionNotes)
            /\ SameWhenTyped("arr", Get(p, "warnings"), out.warnings)
            /\ SameWhenTyped("arr", Get(p, "keyFeatures"),
                             Get(out.marketplaceContent, "keyFeatures"))
            /\ SameWhenTyped("arr", Get(p, "marketplaceTags"),
                             Get(out.marketplaceContent, "marketplaceTags"))
            /\ SameWhenTyped("num", Get(p, "confidence"), out.confidence)
            /\ SameWhenTyped("num", Get(Get(p, "suggestedPrice"), "min"),
                             Get(out.suggestedPrice, "min"))
            /\ SameWhenTyped("num", Get(Get(p, "suggestedPrice"), "max"),
                             Get(out.suggestedPrice, "max"))
            /\ SameWhenTyped("str", Get(Get(p, "suggestedPrice"), "currency"),
                             Get(out.suggestedPrice, "currency"))
            /\ SameWhenTyped("str", Get(Get(p, "specifications"), "brand"),
                             Get(out.specifications, "brand"))
            /\ SameWhenTyped("num", Get(Get(p, "specifications"), "year"),
                             Get(out.specifications, "year"))

(***************************************************************************)
(* Properties of analyzeProductImages (checked under Spec)                 *)
(***************************************************************************)
\* The request has no image: images is null or an empty list.
EmptyImages(r) == r.images.t = "null" \/ (r.images.t = "arr" /\ r.images.v = <<>>)

\* The request has no model identifier: null or the empty string.
NoModelIdentifier(r) == r.modelNumber.t = "null" \/ r.modelNumber = Str("")

\* The configured provider has no client, or names neither backend.
ConfiguredProviderUnavailable ==
    ~ \/ (preferredProvider = "gemini" /\ geminiModel)
      \/ (preferredProvider = "openai" /\ openai)

Failed(c) == pc[c] = "done" /\ outcome[c].threw

\* C6: a call with an empty image list and no model identifier fails with
\* the InvalidRequest condition, a 400-class failure.
C6_InvalidRequestIs400 ==
    \A c \in Calls :
        (pc[c] = "done" /\ EmptyImages(request[c]) /\ NoModelIdentifier(request[c])) =>
            /\ outcome[c].threw
            /\ outcome[c].v.statusCode = 400

\* C7: when the configured provider has no client, a well-formed call fails
\* with the ProviderUnavailable condition, which the caller can tell apart
\* from GenerationFailed.
C7_ProviderUnavailableDistinct ==
    \A c \in Calls :
        (pc[c] = "done" /\ ConfiguredProviderUnavailable
            /\ ~(EmptyImages(request[c]) /\ NoModelIdentifier(request[c]))) =>
            /\ outcome[c].threw
            /\ outcome[c].v.message = "AI service not configured"

\* C8: a call rejected because the request is invalid or the configured
\* provider is unavailable has fetched no image and invoked no backend, in
\* every state from the call on.
C8_NoExternalCallWhenRejected ==
    \A c \in Calls :
        (pc[c] # "idle"
            /\ \/ EmptyImages(request[c]) /\ NoModelIdentifier(request[c])
               \/ ConfiguredProviderUnavailable) =>
            /\ Failed(c)
            /\ fetches[c] = <<>>
            /\ sent[c] = <<>>

C8_Witness ==
    \E c \in Calls :
        /\ Failed(c)
        /\ EmptyImages(request[c]) /\ NoModelIdentifier(request[c])
        /\ ~ConfiguredProviderUnavailable
        /\ caught[c].statusCode = 400
        /\ sent[c] = <<>>

\* C9: whenever an image fetch or the backend call fails, the caller gets
\* the one fixed failure (same message, status 500), never the raw error.
C9_UniformGenerationFailed ==
    \A c \in Calls :
        (\/ \E i \in DOMAIN fetches[c] : fetches[c][i].state = "rejected"
         \/ reply[c].kind \in {"rejected", "malformed"}) =>
            outcome[c] = [threw |-> TRUE,
                          v |-> [name |-> "AppError",
                                 message |-> "Failed to analyze product images",
                                 statusCode |-> 500]]

C9_Witness ==
    \E c \in Calls :
        /\ Len(fetches[c]) = 2
        /\ fetches[c][2].state = "rejected"
        /\ fetches[c][1].state = "pending"
        /\ caught[c].name = "TypeError"
        /\ Failed(c)

\* C10: a call invokes a backend at most once; after the backend call has
\* failed the call has failed, and nothing further is fetched, sent or
\* returned for it.
C10_AtMostOneInvocation ==
    [][\A c \in Calls :
        /\ Len(sent'[c]) <= 1
        /\ reply[c].kind \in {"rejected", "malformed"} =>
            /\ Failed(c)
            /\ sent'[c] = sent[c]
            /\ fetches'[c] = fetches[c]
            /\ outcome'[c] = outcome[c]
            /\ pc'[c] = "done"]_vars

C10_Witness ==
    \E c \in Calls :
        /\ reply[c].kind = "rejected"
        /\ Len(sent[c]) = 1
        /\ Len(sent[c][1].images) = 2
        /\ Failed(c)

\* A fetch that failed: it was rejected (transport error), or it resolved
\* with a status outside 200..299.
FetchFailed(f) ==
    f.state = "rejected" \/ (f.state = "resolved" /\ f.status \notin 200..299)

\* C11: if the fetch of any image of a call fails (transport error or
\* non-success response), the backend is never invoked for the call and the
\* call does not return a record, whatever the order in which the other
\* fetches settle.
C11_AnyFetchFailureFailsCall ==
    \A c \in Calls :
        (\E i \in DOMAIN fetches[c] : FetchFailed(fetches[c][i])) =>
            /\ sent[c] = <<>>
            /\ pc[c] = "done" => outcome[c].threw

\* C12: the encoded images handed to the backend are as many as the input
\* images and in their order: the i-th part is made from the i-th URL and
\* from the response to its fetch, whatever the order of the settlements.
C12_PartsInInputOrder ==
    \A c \in Calls : \A k \in DOMAIN sent[c] :
        (sent[c][k].backend = "gemini" /\ ~EmptyImages(request[c])) =>
            /\ Len(sent[c][k].images) = Len(request[c].images.v)
            /\ \A j \in DOMAIN sent[c][k].images :
                /\ sent[c][k].images[j].data[2] = request[c].images.v[j].v
                /\ sent[c][k].images[j].data[3] = fetches[c][j].status

C12_Witness ==
    \E c \in Calls :
        /\ Len(sent[c]) = 1
        /\ sent[c][1].backend = "gemini"
        /\ Len(sent[c][1].images) = 2
        /\ Len(fetches[c]) = 2
        /\ fetches[c][2].order = 1
        /\ fetches[c][1].order = 2
        /\ sent[c][1].images[1].data[2] = "https://img/1.jpg"
        /\ sent[c][1].images[2].data[2] = "https://img/2.jpg"

\* The number x lies in [0, 1].
InUnitInterval(x) == x.t = "num" /\ 0 <= x.v.m /\ x.v.m <= Pow10(x.v.e)

\* C13: every record the parser returns has a confidence within [0, 1].
C13_ConfidenceInUnitInterval ==
    ParseReturned => InUnitInterval(parseOut.v.confidence)

(***************************************************************************)
(* Properties of the methods called on their own (checked under SpecDirect)*)
(***************************************************************************)
CallsOf(method) == {i \in DOMAIN history : history[i].method = method}

\* C14: free text containing "brand new", in any casing and with words or
\* punctuation around it, is normalized to new.
C14_BrandNewIsNew ==
    \A i \in CallsOf("validateCondition") :
        history[i].args[1] \in {Str("Brand New, sealed"), Str("BRAND NEW"), Str("brand new")} =>
            history[i].out = [threw |-> FALSE, v |-> Str("new")]

\* Inputs that are not canonical values, with the value their single-word
\* synonym (or the default) gives.
SingleWordExamples ==
    << <<Str("kinda broken"), "for-parts">>, <<Str(""), "good">>, <<Null, "good">>,
       <<Undef, "good">>, <<Str("mint condition"), "like-new">>,
       <<Str("Slightly Damaged!"), "poor">>, <<Str("Used"), "good">>,
       <<Str("acceptable"), "fair">>, <<Str("weird"), "good">> >>

\* C15: "kinda broken" is normalized to for-parts and "" to good: a text
\* containing a single-word synonym takes the synonym's value, and a text or
\* absent value matching nothing takes the default good.
C15_SingleWordSynonymOrDefault ==
    \A i \in CallsOf("validateCondition") : \A k \in DOMAIN SingleWordExamples :
        history[i].args[1] = SingleWordExamples[k][1] =>
            history[i].out = [threw |-> FALSE, v |-> Str(SingleWordExamples[k][2])]

C15_Witness ==
    \E i \in CallsOf("validateCondition") :
        /\ history[i].args = <<Str("kinda broken")>>
        /\ history[i].out = [threw |-> FALSE, v |-> Str("for-parts")]

Present(x) == x.t = "str" /\ x.v # ""

\* The parts the title is made of, in order: brand, model, the attribute of
\* the category, color; the empty and absent ones left out.
ExpectedParts(args) ==
    LET details == IF args[4].t = "obj" THEN args[4] ELSE EmptyObject
        attribute ==
            IF args[3] = Str("Electronics") THEN Get(details, "storage")
            ELSE IF args[3] = Str("Fashion") /\ Present(Get(details, "size"))
            THEN Str("Size " \o Get(details, "size").v)
            ELSE Str("")
    IN  SelectSeq(<<args[1], args[2], attribute, Get(details, "color")>>, Present)

NoStraySpace(s) ==
    s = "" \/ /\ Char(s, 1) # " "
              /\ Char(s, Len(s)) # " "
              /\ \A k \in 1..(Len(s) - 1) : ~(Char(s, k) = " " /\ Char(s, k + 1) = " ")

ExampleTitleArguments ==
    <<Str("Sony"), Str("WH-1000XM4"), Str("Electronics"), Obj([color |-> Str("Black")])>>

\* C16: generateTitle joins the non-empty parts, in the order brand, model,
\* category attribute, color, by single spaces with no leading, trailing or
\* doubled space, and returns the first 200 characters of that string; for
\* ("Sony", "WH-1000XM4", "Electronics", {color: "Black"}) it returns
\* "Sony WH-1000XM4 Black".
C16_TitleComposition ==
    \A i \in CallsOf("generateTitle") :
        history[i].args[4].t \in {"undef", "obj"} =>
            LET joined == JoinSpace(ExpectedParts(history[i].args), 1)
                title == history[i].out.v
            IN  /\ ~history[i].out.threw
                /\ NoStraySpace(joined)
                /\ title.t = "str"
                /\ Len(title.v) <= 200
                /\ title.v = (IF Len(joined) <= 200 THEN joined ELSE SubSeq(joined, 1, 200))
                /\ history[i].args = ExampleTitleArguments =>
                        title.v = "Sony WH-1000XM4 Black"

C16_Witness ==
    \E i \in CallsOf("generateTitle") :
        /\ history[i].args = ExampleTitleArguments
        /\ history[i].out = [threw |-> FALSE, v |-> Str("Sony WH-1000XM4 Black")]

CallState(c) == <<pc[c], request[c], fetches[c], sent[c], reply[c], caught[c], outcome[c]>>

\* A result without the time it was produced at.
WithoutTime(o) == IF o.threw THEN o ELSE [o EXCEPT !.v.generatedAt = 0]

\* What the world gave the call c: its arguments, the responses to its
\* fetches and the reply of the backend.
CallInputs(c) == <<request[c], fetches[c], reply[c]>>

\* C18: calls issued concurrently are independent: no step writes the
\* provider configuration or the state of more than one call, and two
\* finished calls given the same arguments and the same responses have the
\* same result (the time of generation apart), however they interleaved.
C18_CallsIndependent ==
    /\ [](\A c, d \in Calls :
            (pc[c] = "done" /\ pc[d] = "done" /\ CallInputs(c) = CallInputs(d)) =>
                WithoutTime(outcome[c]) = WithoutTime(outcome[d]))
    /\ [][/\ configVars' = configVars
          /\ \A c, d \in Calls :
                c # d => (CallState(c)' = CallState(c) \/ CallState(d)' = CallState(d))]_vars

C18_Witness ==
    /\ \A c \in Calls : pc[c] = "done" /\ ~outcome[c].threw
    /\ CallInputs("c1") = CallInputs("c2")
    /\ Len(fetches["c1"]) = 1
    /\ outcome["c1"].v.generatedAt # outcome["c2"].v.generatedAt
    /\ outcome["c1"].v.title = Str("Sony WH-1000XM4")

(***************************************************************************)
(* Properties of POST /analyze-product (checked under SpecRoute)           *)
(***************************************************************************)
\* The request has no uploaded image.
NoUpload(h) == h.files.t # "arr" \/ h.files.v = <<>>

\* The model number of the request is absent or blank.
BlankModelNumber(h) ==
    \/ h.raw[1].t # "str"
    \/ \A i \in 1..Len(h.raw[1].v) : Char(h.raw[1].v, i) \in {" ", "\t", "\n", "\r"}

\* C19: a request with no uploaded image and no non-blank modelNumber is
\* answered with a 4xx status and the service is never called for it; a
\* request for which the service was called and failed is answered with a
\* 5xx status.
C19_BoundaryStatus ==
    \A c \in Calls :
        /\ (http[c].state # "none" /\ NoUpload(http[c]) /\ BlankModelNumber(http[c])) =>
                /\ pc[c] = "idle"
                /\ fetches[c] = <<>> /\ sent[c] = <<>>
                /\ http[c].state = "sent" => http[c].status \in 400..499
        /\ (http[c].state = "sent" /\ pc[c] = "done" /\ outcome[c].threw) =>
                http[c].status \in 500..599

C19_Witness ==
    \E c \in Calls :
        /\ http[c].state = "sent"
        /\ NoUpload(http[c])
        /\ http[c].raw[1] = Str("   ")
        /\ http[c].status = 400
        /\ pc[c] = "idle"

(***************************************************************************)
(* Text-only generation (checked under Spec)                               *)
(***************************************************************************)
\* C20: a call with no image and a model identifier fetches nothing and
\* invokes the configured backend exactly once, with the prompt and no image.
C20_TextOnlyInvocation ==
    \A c \in Calls :
        (pc[c] # "idle" /\ EmptyImages(request[c]) /\ ~NoModelIdentifier(request[c])
            /\ ~ConfiguredProviderUnavailable) =>
            /\ fetches[c] = <<>>
            /\ Len(sent[c]) = 1
            /\ sent[c][1].backend = preferredProvider
            /\ sent[c][1].images = <<>>
            /\ Len(sent[c][1].prompt) > 0

C20_Witness ==
    \E c \in Calls :
        /\ pc[c] = "done"
        /\ request[c].images = Arr(<<>>)
        /\ request[c].modelNumber = Str("WH-1000XM4")
        /\ preferredProvider = "gemini"
        /\ Len(sent[c]) = 1
        /\ sent[c][1].images = <<>>
        /\ ~outcome[c].threw

(***************************************************************************)
(* The degraded record, the extraction and the prices (under SpecParse)    *)
(***************************************************************************)
EmptyList == [t |-> "arr", v |-> <<>>]

\* C21: when no JSON object is located or decoded, the record has the
\* placeholder title, the first 1000 characters of the text as description,
\* condition good, empty lists, prices 0, confidence 0.3, the degraded
\* marker, and the provider passed to the parser.
C21_DegradedRecord ==
    (parsePc = "done" /\ rawText.t = "str" /\ ~Decodes(rawText.v)) =>
        LET out == parseOut.v
        IN  /\ ~parseOut.threw
            /\ out.title = Str("Product for Sale")
            /\ out.description =
                  Str(IF Len(rawText.v) <= 1000 THEN rawText.v ELSE SubSeq(rawText.v, 1, 1000))
            /\ out.condition = Str("good")
            /\ out.warnings = EmptyList
            /\ out.searchKeywords = EmptyList
            /\ Get(out.marketplaceContent, "keyFeatures") = EmptyList
            /\ Get(out.marketplaceContent, "marketplaceTags") = EmptyList
            /\ Get(out.category, "tags") = EmptyList
            /\ \A k \in {"primary", "secondary", "longTail"} :
                  Get(Get(out.marketplaceContent, "seoKeywords"), k) = EmptyList
            /\ Get(out.suggestedPrice, "min").v = [m |-> 0, e |-> 0]
            /\ Get(out.suggestedPrice, "max").v = [m |-> 0, e |-> 0]
            /\ out.confidence.v = [m |-> 3, e |-> 1]
            /\ parseFailed(out)
            /\ out.aiProvider = providerId

C21_Witness ==
    /\ ParseReturned
    /\ rawText.t = "str"
    /\ Len(rawText.v) = LongTextLen
    /\ ~Decodes(rawText.v)
    /\ providerId = "openai"
    /\ Len(parseOut.v.description.v) = 1000
    /\ parseOut.v.aiProvider = "openai"

\* The part of the text from its first "{" to its last "}" ("" when the
\* text has no "{" followed by a "}").
FirstToLastBrace(text) ==
    LET opens == {i \in 1..Len(text) : Char(text, i) = "{"}
        closes == {i \in 1..Len(text) : Char(text, i) = "}"}
        first == CHOOSE i \in opens : \A j \in opens : i <= j
        last == CHOOSE i \in closes : \A j \in closes : j <= i
    IN  IF opens # {} /\ closes # {} /\ first < last THEN SubSeq(text, first, last) ELSE ""

BasePayload == Object(BaseFields)

\* C22: the parser decodes the part of the text from the first "{" to the
\* last "}": a payload in brace-free prose is decoded whole, and prose that
\* adds a "{" before it or a "}" after it gives the degraded record, never
\* an exception.
C22_FirstToLastBrace ==
    (parsePc = "done" /\ rawText.t = "str") =>
        /\ ~parseOut.threw
        /\ ~parseFailed(parseOut.v) =>
              /\ JSONparse(FirstToLastBrace(rawText.v)).ok
              /\ Get(JSONparse(FirstToLastBrace(rawText.v)).v, "seoTitle")
                    = Str("Sony WH-1000XM4 Headphones") =>
                        parseOut.v.title = Str("Sony WH-1000XM4 Headphones")
        /\ rawText.v = "Here is the listing:\n" \o BasePayload \o "\nLet me know if you need more." =>
              /\ ~parseFailed(parseOut.v)
              /\ parseOut.v.title = Str("Sony WH-1000XM4 Headphones")
              /\ parseOut.v.condition = Str("like-new")
        /\ rawText.v \in {"{note} " \o BasePayload, BasePayload \o " (end})"} =>
              parseFailed(parseOut.v)

C22_Witness ==
    /\ ParseReturned
    /\ rawText = Str(BasePayload \o " (end})")
    /\ FirstToLastBrace(rawText.v) # BasePayload
    /\ parseFailed(parseOut.v)

PriceText(k, lit) ==
    Str(Object(Vary(BaseFields, "suggestedPrice", Object(Vary(BasePrice, k, lit)))))

\* C23: suggestedPrice.min and suggestedPrice.max of every returned record
\* are numbers; a number or a string with a numeric prefix gives the
\* prefix, anything else 0, for min and max independently.
C23_PricesAreNumbers ==
    ParseReturned =>
        LET min == Get(parseOut.v.suggestedPrice, "min")
            max == Get(parseOut.v.suggestedPrice, "max")
        IN  /\ min.t = "num" /\ max.t = "num"
            /\ rawText = PriceText("min", "\"199.99abc\"") =>
                  min.v = [m |-> 19999, e |-> 2] /\ max.v = [m |-> 19999, e |-> 2]
            /\ rawText = PriceText("max", "\"199.99abc\"") =>
                  min.v = [m |-> 150, e |-> 0] /\ max.v = [m |-> 19999, e |-> 2]
            /\ rawText = PriceText("min", "\"abc\"") =>
                  min.v = [m |-> 0, e |-> 0] /\ max.v = [m |-> 19999, e |-> 2]
            /\ rawText = PriceText("max", "null") =>
                  min.v = [m |-> 150, e |-> 0] /\ max.v = [m |-> 0, e |-> 0]
            /\ rawText = PriceText("min", "-5") => min.v = [m |-> -5, e |-> 0]
            /\ rawText = TextWith("suggestedPrice", "null") =>
                  min.v = [m |-> 0, e |-> 0] /\ max.v = [m |-> 0, e |-> 0]

C23_Witness ==
    /\ ParseReturned
    /\ rawText = PriceText("min", "\"199.99abc\"")
    /\ ~parseFailed(parseOut.v)
    /\ Get(parseOut.v.suggestedPrice, "min").v = [m |-> 19999, e |-> 2]

(***************************************************************************)
(* The listing endpoints (under SpecListings)                              *)
(***************************************************************************)
MutationRoutes ==
    {"PUT /listings/:id", "PATCH /listings/:id/status", "DELETE /listings/:id",
     "POST /listings/:id/mark-sold"}

\* The handler of the request in slot r answers in this step.
Handles(r, routes) ==
    req[r].pc = "handler" /\ req[r].route \in routes /\ req'[r].pc = "done"

Exists(q) == q.id \in 1..Len(listings)
OwnedByRequester(q) == Exists(q) /\ listings[q.id].user_id = q.user

\* The request does not pass the validators of its route.
FailsValidation(q) ==
    \/ /\ q.route = "PUT /listings/:id"
       /\ \/ ~({"title", "description"} \subseteq DOMAIN q.body)
          \/ trim(q.body.title) = "" \/ trim(q.body.description) = ""
          \/ ~({"photo_url", "model_number"} \cap DOMAIN q.body # {})
    \/ /\ q.route = "PATCH /listings/:id/status"
       /\ q.body.status \notin {"active", "sold", "draft"}

C25_DeletionFinal ==
    [][\A i \in 1..Len(listings) :
          listings[i].status = "deleted" => listings'[i].status = "deleted"]_vars

\* C26: no document in the response of a public listing route has the
\* status deleted or draft.
C26_PublicListingsVisible ==
    \A r \in Slots :
        (req[r].pc = "done" /\ req[r].route \in PublicRoutes) =>
            \A i \in 1..Len(req[r].listings) :
                req[r].listings[i].status \notin {"deleted", "draft"}

\* C28: a handler behind authenticate runs only with a verified token and
\* a user attached; a request without token is answered 401 with neither
\* verification nor database access, one with a bad token is answered 401,
\* and in both cases next() is not called and no record changes.
C28_AuthenticateGuards ==
    /\ [](\A r \in Slots : req[r].route \in ProtectedRoutes =>
            /\ req[r].pc = "handler" =>
                  req[r].verified /\ req[r].next /\ req[r].user \in 1..Len(users)
            /\ req[r].pc = "done" /\ req[r].token.kind = "none" =>
                  /\ req[r].status = 401
                  /\ ~req[r].verified /\ ~req[r].dbAccess /\ ~req[r].next
            /\ req[r].pc = "done" /\ req[r].token.kind \in {"invalid", "expired", "nosub"} =>
                  req[r].status = 401 /\ ~req[r].next)
    /\ [][\A r \in Slots :
            (req[r].pc = "auth" /\ req[r].token.kind # "valid" /\ req'[r] # req[r]) =>
                req'[r].pc = "done" /\ users' = users /\ listings' = listings]_vars

C28_Witness ==
    /\ req["r1"].pc = "done"
    /\ req["r1"].route = "PATCH /listings/:id/status"
    /\ req["r1"].token.kind = "none"
    /\ req["r1"].status = 401
    /\ listings[1].status = "active"

\* The fields of a document that differ between two versions of it.
Changed(old, new) == {f \in DOMAIN old : old[f] # new[f]}

\* C30: PUT /:id changes only title, model_number, photo_url, description,
\* additional_photos, status and ai_metadata, PATCH /:id/status changes
\* status only, and PATCH /auth/me changes only name and avatar_url of the
\* requesting user; user_id and created_at of every listing stay as created.
C30_UpdateFrame ==
    /\ [](\A i \in 1..Len(listings) :
            listings[i].created_at = 0 /\ listings[i].user_id = (IF i = 1 THEN 1 ELSE 2))
    /\ [][\A r \in Slots :
            /\ Handles(r, {"PUT /listings/:id"}) =>
                  /\ Len(listings') = Len(listings)
                  /\ \A i \in 1..Len(listings) :
                        Changed(listings[i], listings'[i]) \subseteq
                            (IF i = req[r].id
                             THEN {"title", "model_number", "photo_url", "description",
                                   "additional_photos", "status", "ai_metadata"}
                             ELSE {})
            /\ Handles(r, {"PATCH /listings/:id/status"}) =>
                  /\ Len(listings') = Len(listings)
                  /\ \A i \in 1..Len(listings) :
                        Changed(listings[i], listings'[i]) \subseteq
                            (IF i = req[r].id THEN {"status"} ELSE {})
            /\ Handles(r, {"PATCH /auth/me"}) =>
                  /\ Len(users') = Len(users) /\ listings' = listings
                  /\ \A i \in 1..Len(users) :
                        Changed(users[i], users'[i]) \subseteq
                            (IF i = req[r].user THEN {"name", "avatar_url"} ELSE {})]_vars

C30_Witness ==
    /\ req["r1"].pc = "done"
    /\ req["r1"].route = "PUT /listings/:id"
    /\ req["r1"].body = FullBody
    /\ req["r1"].status = 200
    /\ listings[1].title = "Bose QC45"
    /\ listings[1].photo_url = "https://img/2.jpg"
    /\ listings[1].user_id = 1
    /\ listings[1].created_at = 0

(***************************************************************************)
(* authenticate and the webhook under interleaving (under SpecAuth)        *)
(***************************************************************************)
OneUserPerClerkId ==
    \A i, j \in 1..Len(users) : users[i].clerkId = users[j].clerkId => i = j

\* C27: there is never more than one user with a clerkId, and no request
\* with a valid token is answered 401.
C27_FindOrCreateSafe ==
    /\ OneUserPerClerkId
    /\ \A r \in Slots :
          (req[r].pc = "done" /\ req[r].route \in ProtectedRoutes /\ req[r].token.kind = "valid")
              => req[r].status # 401

\* The delivery lacks a svix header or its signature does not verify.
Rejected(q) == q.route = WebhookRoute /\ (~(SvixHeaders \subseteq q.svix) \/ ~q.signed)

\* C29 as claimed: a rejected delivery is answered 400, no handler runs
\* for it and the users and listings stay as they are; user.created for a
\* clerkId that has a user creates no second one.
C29_WebhookAsClaimed ==
    \A r \in Slots :
        Rejected(req[r]) => /\ req[r].pc \in {"webhook", "done"}
                            /\ req[r].pc = "done" => req[r].status = 400

\* C29: a rejected delivery is answered 400 when CLERK_WEBHOOK_SECRET is
\* set and 500 when it is not; no handler runs for it and its steps leave
\* the users and listings as they are; user.created for a clerkId that has
\* a user creates no second one.
C29_WebhookRejection ==
    /\ [](\A r \in Slots :
            Rejected(req[r]) =>
                /\ req[r].pc \in {"webhook", "done"}
                /\ req[r].pc = "done" => req[r].status = (IF webhookSecret THEN 400 ELSE 500))
    /\ []OneUserPerClerkId
    /\ [][\A r \in Slots :
            /\ (Rejected(req[r]) /\ req[r].pc = "webhook" /\ req'[r] # req[r]) =>
                  req'[r].pc = "done" /\ users' = users /\ listings' = listings
            /\ (req[r].pc = "user.created" /\ req'[r] # req[r]
                  /\ findByClerkId(users, req[r].body.data.id) # 0) =>
                  req'[r].pc = "done" /\ users' = users]_vars

C29_Witness ==
    /\ webhookSecret
    /\ req["w1"].pc = "done"
    /\ req["w1"].svix = SvixHeaders
    /\ ~req["w1"].signed
    /\ req["w1"].body.type = "user.deleted"
    /\ req["w1"].status = 400
    /\ Len(listings) = 1
    /\ listings[1].status = "active"

====
